---- MODULE Spec2Model ----
(***************************************************************************)
(* OCPP 2.0.1 Device Model Variable Manager (OCPP20VariableManager) of the *)
(* e-mobility charging stations simulator, as a state machine.             *)
(*                                                                         *)
(* Strings that the code measures, slices or parses (attribute values,     *)
(* configuration values) are sequences of one-character strings, so that   *)
(* length, truncation and integer parsing are computed, not assumed.       *)
(* Names (components, variables, attribute kinds, statuses, reason codes)  *)
(* are TLA+ strings.  An optional value is <<>> (absent) or <<x>>.         *)
(***************************************************************************)
EXTENDS Integers, Sequences, FiniteSets, TLC

VARIABLES
  store,             \* station -> configuration key name -> optional [value, reboot]
  invalidVariables,  \* set of composite keys (process-wide)
  runtimeOverrides,  \* composite key -> value (process-wide)
  minSetOverrides,   \* composite key -> value (process-wide)
  maxSetOverrides,   \* composite key -> value (process-wide)
  last,              \* the last public call: its input, outcome and results
  chargingStation,   \* the OCPP 1.6 station: registration, configuration, connectors, firmware
  tasks,             \* the asynchronous handlers in flight: task id -> position and locals
  sent,              \* the messages sent so far, oldest first
  handled            \* the last request handled: its input and outcome

\* the state of the OCPP 2.0.1 variable manager and of its stations
managerVars ==
  <<store, invalidVariables, runtimeOverrides, minSetOverrides, maxSetOverrides, last>>

\* the state of the OCPP 1.6 station, its request handlers and its channels
stationVars == <<chargingStation, tasks, sent, handled>>

vars == <<managerVars, stationVars>>

\* no OCPP 1.6 station exists
StationIdle == chargingStation = <<>> /\ tasks = <<>> /\ sent = <<>> /\ handled = <<>>

----------------------------------------------------------------------------
(* Optional values *)

None == <<>>

Some(x) == <<x>>

IsSome(o) == o # <<>>

Get(o) == o[1]

Min2(a, b) == IF a <= b THEN a ELSE b

----------------------------------------------------------------------------
(* Character strings *)

Digits == {"0", "1", "2", "3", "4", "5", "6", "7", "8", "9"}

DigitValue(c) ==
  CASE c = "0" -> 0 [] c = "1" -> 1 [] c = "2" -> 2 [] c = "3" -> 3 [] c = "4" -> 4
    [] c = "5" -> 5 [] c = "6" -> 6 [] c = "7" -> 7 [] c = "8" -> 8 [] c = "9" -> 9

DigitChar(d) ==
  CASE d = 0 -> "0" [] d = 1 -> "1" [] d = 2 -> "2" [] d = 3 -> "3" [] d = 4 -> "4"
    [] d = 5 -> "5" [] d = 6 -> "6" [] d = 7 -> "7" [] d = 8 -> "8" [] d = 9 -> "9"

\* s.slice(0, n)
Slice(s, n) == IF Len(s) > n THEN SubSeq(s, 1, n) ELSE s

\* the string of n copies of the character c
Repeat(c, n) == [i \in 1..n |-> c]

AllDigits(s, from, to) == \A i \in from..to : s[i] \in Digits

\* the length of the longest run of digits of s that starts at position from
RECURSIVE DigitRun(_, _)
DigitRun(s, from) ==
  IF from <= Len(s) /\ s[from] \in Digits THEN 1 + DigitRun(s, from + 1) ELSE 0

\* the number written by the digits s[from..to]
RECURSIVE DigitsToNat(_, _, _)
DigitsToNat(s, from, to) ==
  IF to < from THEN 0 ELSE 10 * DigitsToNat(s, from, to - 1) + DigitValue(s[to])

\* /^-?\d+$/
MatchesSignedInteger(s) ==
  LET from == IF Len(s) > 0 /\ s[1] = "-" THEN 2 ELSE 1
  IN  from <= Len(s) /\ AllDigits(s, from, Len(s))

\* /^-?\d+\.\d+$/
MatchesSignedDecimal(s) ==
  LET from == IF Len(s) > 0 /\ s[1] = "-" THEN 2 ELSE 1
      n    == DigitRun(s, from)
      dot  == from + n
  IN  /\ n > 0
      /\ dot < Len(s)
      /\ s[dot] = "."
      /\ AllDigits(s, dot + 1, Len(s))

\* A JavaScript number that is an integer or NaN
NaN == [nan |-> TRUE, n |-> 0]

Num(n) == [nan |-> FALSE, n |-> n]

IsNaN(x) == x.nan

\* JavaScript's <, > and >=: false when an operand is NaN
NumLt(a, b) == ~a.nan /\ ~b.nan /\ a.n < b.n

NumGt(a, b) == ~a.nan /\ ~b.nan /\ a.n > b.n

NumGe(a, b) == ~a.nan /\ ~b.nan /\ a.n >= b.n

\* n.toString() of a natural number
RECURSIVE toString(_)
toString(n) ==
  IF n < 10 THEN DigitChar(n) ELSE toString(n \div 10) \o DigitChar(n % 10)

\* Number.parseInt: an optional sign, then the longest run of digits; NaN when
\* there is no digit
convertToIntOrNaN(s) ==
  LET signed == Len(s) > 0 /\ s[1] \in {"-", "+"}
      from   == IF signed THEN 2 ELSE 1
      n      == DigitRun(s, from)
      abs    == DigitsToNat(s, from, from + n - 1)
  IN  IF n = 0 THEN NaN
      ELSE IF signed /\ s[1] = "-" THEN Num(0 - abs) ELSE Num(abs)

\* String(n) of an integer n
RECURSIVE NatToString(_)
NatToString(n) ==
  IF n < 10 THEN <<DigitChar(n)>> ELSE Append(NatToString(n \div 10), DigitChar(n % 10))

IntToString(n) == IF n < 0 THEN <<"-">> \o NatToString(0 - n) ELSE NatToString(n)

----------------------------------------------------------------------------
(* Names *)

Actual == "Actual"

Target == "Target"

MinSet == "MinSet"

MaxSet == "MaxSet"

\* attributeType left out of a request
Omitted == "omitted"

\* component.instance or variable.instance left out
NoInstance == "-"

\* String.prototype.toLowerCase on the names the model uses
LowerTable ==
  [x \in {"AuthCtrlr", "ChargingStation", "ClockCtrlr", "DeviceDataCtrlr", "OCPPCommCtrlr",
          "SampledDataCtrlr", "SecurityCtrlr", "TxCtrlr", "EVSE", "Connector",
          "AuthorizeRemoteStart", "authorizeRemoteStart", "HeartbeatInterval",
          "WebSocketPingInterval", "BasicAuthPassword", "ConfigurationValueSize",
          "ReportingValueSize", "ValueSize", "CertificateEntries", "TxUpdatedInterval",
          "MessageAttemptInterval", "TransactionEvent", "EVConnectionTimeOut",
          "NoSuchVariable"} |->
     CASE x = "AuthCtrlr" -> "authctrlr"
       [] x = "ChargingStation" -> "chargingstation"
       [] x = "ClockCtrlr" -> "clockctrlr"
       [] x = "DeviceDataCtrlr" -> "devicedatactrlr"
       [] x = "OCPPCommCtrlr" -> "ocppcommctrlr"
       [] x = "SampledDataCtrlr" -> "sampleddatactrlr"
       [] x = "SecurityCtrlr" -> "securityctrlr"
       [] x = "TxCtrlr" -> "txctrlr"
       [] x = "EVSE" -> "evse"
       [] x = "Connector" -> "connector"
       [] x = "AuthorizeRemoteStart" -> "authorizeremotestart"
       [] x = "authorizeRemoteStart" -> "authorizeremotestart"
       [] x = "HeartbeatInterval" -> "heartbeatinterval"
       [] x = "HeartBeatInterval" -> "heartbeatinterval"
       [] x = "WebSocketPingInterval" -> "websocketpinginterval"
       [] x = "BasicAuthPassword" -> "basicauthpassword"
       [] x = "ConfigurationValueSize" -> "configurationvaluesize"
       [] x = "ReportingValueSize" -> "reportingvaluesize"
       [] x = "ValueSize" -> "valuesize"
       [] x = "CertificateEntries" -> "certificateentries"
       [] x = "TxUpdatedInterval" -> "txupdatedinterval"
       [] x = "TxEndedInterval" -> "txendedinterval"
       [] x = "MessageAttemptInterval" -> "messageattemptinterval"
       [] x = "TransactionEvent" -> "transactionevent"
       [] x = "Aligned" -> "aligned"
       [] x = "EVConnectionTimeOut" -> "evconnectiontimeout"
       [] x = "NoSuchVariable" -> "nosuchvariable"]

\* a name with no upper-case letter is its own lower case
Lower(x) == IF x \in DOMAIN LowerTable THEN LowerTable[x] ELSE x

----------------------------------------------------------------------------
(* Program constants *)

\* Constants.OCPP_VALUE_ABSOLUTE_MAX_LENGTH
OCPP_VALUE_ABSOLUTE_MAX_LENGTH == 2500

\* Constants.DEFAULT_TX_UPDATED_INTERVAL
DEFAULT_TX_UPDATED_INTERVAL == 30

----------------------------------------------------------------------------
(* Variable registry: the catalog of supported variables and their metadata *)

Entry(c, v, i, dt, mut, per, attrs, def, mn, mx) ==
  [component |-> c, variable |-> v, instance |-> i, dataType |-> dt, mutability |-> mut,
   persistence |-> per, supportedAttributes |-> attrs, defaultValue |-> def,
   min |-> mn, max |-> mx, rebootRequired |-> FALSE, supportsTarget |-> Target \in attrs]

VARIABLE_REGISTRY ==
  << Entry("AuthCtrlr", "AuthorizeRemoteStart", NoInstance, "boolean", "ReadWrite",
           "Persistent", {Actual}, Some(<<"t", "r", "u", "e">>), None, None),
     Entry("ChargingStation", "WebSocketPingInterval", NoInstance, "integer", "ReadWrite",
           "Persistent", {Actual}, Some(<<"3", "0">>), Some(0), None),
     Entry("DeviceDataCtrlr", "ConfigurationValueSize", NoInstance, "integer", "ReadWrite",
           "Persistent", {Actual}, Some(IntToString(OCPP_VALUE_ABSOLUTE_MAX_LENGTH)),
           Some(1), Some(OCPP_VALUE_ABSOLUTE_MAX_LENGTH)),
     Entry("DeviceDataCtrlr", "ReportingValueSize", NoInstance, "integer", "ReadWrite",
           "Persistent", {Actual}, Some(IntToString(OCPP_VALUE_ABSOLUTE_MAX_LENGTH)),
           Some(1), Some(OCPP_VALUE_ABSOLUTE_MAX_LENGTH)),
     Entry("DeviceDataCtrlr", "ValueSize", NoInstance, "integer", "ReadWrite",
           "Persistent", {Actual}, Some(IntToString(OCPP_VALUE_ABSOLUTE_MAX_LENGTH)),
           Some(1), Some(OCPP_VALUE_ABSOLUTE_MAX_LENGTH)),
     Entry("OCPPCommCtrlr", "HeartbeatInterval", NoInstance, "integer", "ReadWrite",
           "Persistent", {Actual, MinSet, MaxSet}, Some(<<"6", "0">>), Some(1), Some(86400)),
     Entry("OCPPCommCtrlr", "MessageAttemptInterval", "TransactionEvent", "integer",
           "ReadWrite", "Persistent", {Actual}, Some(<<"5">>), Some(1), None),
     Entry("SampledDataCtrlr", "TxUpdatedInterval", NoInstance, "integer", "ReadWrite",
           "Volatile", {Actual}, None, Some(1), None),
     Entry("SecurityCtrlr", "BasicAuthPassword", NoInstance, "string", "WriteOnly",
           "Persistent", {Actual}, None, None, None),
     Entry("SecurityCtrlr", "CertificateEntries", NoInstance, "integer", "ReadOnly",
           "Persistent", {Actual, MinSet, MaxSet}, None, Some(0), None),
     Entry("TxCtrlr", "EVConnectionTimeOut", NoInstance, "integer", "ReadWrite",
           "Persistent", {Actual, Target}, Some(<<"3", "0">>), Some(1), None),
     Entry("SampledDataCtrlr", "TxEndedInterval", NoInstance, "integer", "ReadWrite",
           "Volatile", {Actual, Target}, None, Some(0), None),
     Entry("SampledDataCtrlr", "TxEndedInterval", "Aligned", "integer", "ReadWrite",
           "Volatile", {Actual, MinSet}, None, Some(0), None) >>

RegistryEntries == {VARIABLE_REGISTRY[i] : i \in 1..Len(VARIABLE_REGISTRY)}

\* The registry lookup: component, variable and instance compared without case;
\* an entry is found only under its own instance (or under none when it has none).
getVariableMetadata(componentName, variableName, instance) ==
  LET found == {m \in RegistryEntries :
                  /\ Lower(m.component) = Lower(componentName)
                  /\ Lower(m.variable) = Lower(variableName)
                  /\ Lower(m.instance) = Lower(instance)}
  IN  IF found = {} THEN None ELSE Some(CHOOSE m \in found : TRUE)

\* component[.componentInstance]/variable, lower case
buildCaseInsensitiveCompositeKey(component, instance, variable) ==
  <<Lower(component), Lower(instance), Lower(variable)>>

\* value cut to the first sizeRaw characters; a limit that is no positive integer
\* cuts nothing
enforceReportingValueSize(value, sizeRaw) ==
  LET size == convertToIntOrNaN(sizeRaw)
  IN  IF ~IsNaN(size) /\ size.n > 0 /\ Len(value) > size.n THEN SubSeq(value, 1, size.n)
      ELSE value

\* chargingStation.getHeartbeatInterval() in seconds, as a string
StationHeartbeatInterval == <<"6", "0">>

\* the resolve hook of a registry entry: HeartbeatInterval is read from the station
resolveHook(variableMetadata) ==
  IF variableMetadata.variable = "HeartbeatInterval" THEN Some(StationHeartbeatInterval)
  ELSE None

\* the resolve hook's output, else the default value, else the empty string
resolveValue(variableMetadata) ==
  IF IsSome(resolveHook(variableMetadata)) THEN Get(resolveHook(variableMetadata))
  ELSE IF IsSome(variableMetadata.defaultValue) THEN Get(variableMetadata.defaultValue)
  ELSE <<>>

\* no entry of this registry has a postProcess hook
applyPostProcess(variableMetadata, value) == value

Ok == [ok |-> TRUE, reason |-> "NoError", info |-> "-"]

Invalid(reason, info) == [ok |-> FALSE, reason |-> reason, info |-> info]

\* the validator, by data type
validateValue(variableMetadata, value) ==
  CASE variableMetadata.dataType = "integer" ->
         IF ~MatchesSignedInteger(value)
         THEN IF MatchesSignedDecimal(value)
              THEN Invalid("InvalidValue", "Integer must not be decimal")
              ELSE Invalid("InvalidValue", "Integer required")
         ELSE LET n == convertToIntOrNaN(value)
              IN  IF IsSome(variableMetadata.min) /\ n.n < Get(variableMetadata.min)
                  THEN Invalid("ValueTooLow", "Integer below minimum")
                  ELSE IF IsSome(variableMetadata.max) /\ n.n > Get(variableMetadata.max)
                  THEN Invalid("ValueTooHigh", "Integer above maximum")
                  ELSE Ok
    [] variableMetadata.dataType = "boolean" ->
         IF value \in {<<"t", "r", "u", "e">>, <<"f", "a", "l", "s", "e">>} THEN Ok
         ELSE Invalid("InvalidValue", "Boolean must be true or false")
    [] OTHER -> Ok

----------------------------------------------------------------------------
(* ConfigurationKey store of one station: key name -> optional entry *)

\* variable, or variable.instance
KeyName(variable, instance) == <<variable, instance>>

getConfigurationKey(cfg, keyName) == cfg[keyName]

\* adds the key; an existing key is left alone when overwrite is false
addConfigurationKey(cfg, keyName, value, overwrite) ==
  IF IsSome(cfg[keyName]) /\ ~overwrite THEN cfg
  ELSE [cfg EXCEPT ![keyName] = Some([value |-> value, reboot |-> FALSE])]

\* sets the value of an existing key
setConfigurationKeyValue(cfg, keyName, value) ==
  IF IsSome(cfg[keyName])
  THEN [cfg EXCEPT ![keyName] = Some([Get(cfg[keyName]) EXCEPT !.value = value])]
  ELSE cfg

----------------------------------------------------------------------------
(* OCPP20VariableManager: helpers *)

MapGet(map, k) == IF k \in DOMAIN map THEN Some(map[k]) ELSE None

MapSet(map, k, v) == [x \in (DOMAIN map) \cup {k} |-> IF x = k THEN v ELSE map[x]]

\* a ?? b on instances
Coalesce(a, b) == IF a # NoInstance THEN a ELSE b

\* the collaborator calls that may throw during a call
NoFault == "none"

FaultSelfCheck == "selfCheck"

FaultStore == "store"

FaultRestartHeartbeat == "restartHeartbeat"

FaultRestartWebSocketPing == "restartWebSocketPing"

shouldFlattenInstance(variableMetadata) == variableMetadata.variable = "MessageAttemptInterval"

computeConfigurationKeyName(variableMetadata) ==
  IF variableMetadata.instance # NoInstance /\ ~shouldFlattenInstance(variableMetadata)
  THEN KeyName(variableMetadata.variable, variableMetadata.instance)
  ELSE KeyName(variableMetadata.variable, NoInstance)

KeyNames == {computeConfigurationKeyName(m) : m \in RegistryEntries}

SupportedComponents ==
  {"AuthCtrlr", "ChargingStation", "ClockCtrlr", "DeviceDataCtrlr", "OCPPCommCtrlr",
   "SampledDataCtrlr", "SecurityCtrlr", "TxCtrlr"}

\* Set.has: an exact, case-sensitive comparison
isComponentValid(component) == component.name \in SupportedComponents

isVariableSupported(component, variable) ==
  \/ IsSome(getVariableMetadata(component.name, variable.name,
                                Coalesce(variable.instance, component.instance)))
  \/ IsSome(getVariableMetadata(component.name, variable.name, NoInstance))

\* info.length > 50 ? info.slice(0, 50) : info
truncatedInfo(info) == IF Len(info) > 50 THEN SubSeq(info, 1, 50) ELSE info

rejectGet(variable, component, attributeType, status, reason, info) ==
  [attributeStatus |-> status, reasonCode |-> reason,
   additionalInfo |-> truncatedInfo(info),
   attributeType |-> IF attributeType = Omitted THEN Actual ELSE attributeType,
   attributeValue |-> None, component |-> component, variable |-> variable]

rejectSet(variable, component, attributeType, status, reason, info) ==
  [attributeStatus |-> status, reasonCode |-> reason,
   additionalInfo |-> truncatedInfo(info),
   attributeType |-> attributeType, attributeValue |-> None,
   component |-> component, variable |-> variable]

acceptGet(variable, component, attributeType, value) ==
  [attributeStatus |-> "Accepted", reasonCode |-> "-", additionalInfo |-> "-",
   attributeType |-> attributeType, attributeValue |-> Some(value),
   component |-> component, variable |-> variable]

\* what one item of a batch did: the manager state after it, the result, and
\* whether the item ended by an exception
Returned(m, res) == [m |-> m, threw |-> FALSE, res |-> res]

Thrown(m) == [m |-> m, threw |-> TRUE, res |-> None]

\* chargingStation.getWebSocketPingInterval(), as a string
StationWebSocketPingInterval == <<"3", "0">>

----------------------------------------------------------------------------
(* validatePersistentMappings *)

\* the registry entries whose configuration key the self-check looks up
SelfChecked(variableMetadata) ==
  /\ variableMetadata.persistence = "Persistent"
  /\ variableMetadata.mutability # "WriteOnly"

\* mutation of validateMapping: a missing key is never given its default
validateMapping_invalidOnly(m, variableMetadata) ==
  LET configurationKeyName == computeConfigurationKeyName(variableMetadata)
      variableKey == buildCaseInsensitiveCompositeKey(
                       variableMetadata.component, variableMetadata.instance,
                       variableMetadata.variable)
  IN  IF ~SelfChecked(variableMetadata) THEN m
      ELSE IF IsSome(getConfigurationKey(m.cfg, configurationKeyName)) THEN m
      ELSE IF variableMetadata.variable \in {"ConfigurationValueSize", "ValueSize",
                                             "ReportingValueSize"} THEN m
      ELSE IF variableMetadata.instance # NoInstance THEN m
      ELSE [m EXCEPT !.invalidVariables = @ \cup {variableKey}]

\* mutation of validateMapping: a missing key without a default is not marked
validateMapping_defaultOnly(m, variableMetadata) ==
  LET configurationKeyName == computeConfigurationKeyName(variableMetadata)
  IN  IF ~SelfChecked(variableMetadata) THEN m
      ELSE IF IsSome(getConfigurationKey(m.cfg, configurationKeyName)) THEN m
      ELSE IF variableMetadata.variable \in {"ConfigurationValueSize", "ValueSize",
                                             "ReportingValueSize"} THEN m
      ELSE IF variableMetadata.instance # NoInstance THEN m
      ELSE IF IsSome(variableMetadata.defaultValue)
      THEN [m EXCEPT !.cfg = addConfigurationKey(m.cfg, configurationKeyName,
                                                  Get(variableMetadata.defaultValue), FALSE)]
      ELSE m

\* one iteration of the loop over the registry
validateMapping(m, variableMetadata) ==
  LET configurationKeyName == computeConfigurationKeyName(variableMetadata)
      variableKey == buildCaseInsensitiveCompositeKey(
                       variableMetadata.component, variableMetadata.instance,
                       variableMetadata.variable)
  IN  IF ~SelfChecked(variableMetadata) THEN m
      ELSE IF IsSome(getConfigurationKey(m.cfg, configurationKeyName)) THEN m
      ELSE IF variableMetadata.variable \in {"ConfigurationValueSize", "ValueSize",
                                             "ReportingValueSize"} THEN m
      ELSE IF variableMetadata.instance # NoInstance THEN m
      ELSE IF IsSome(variableMetadata.defaultValue)
      THEN [m EXCEPT !.cfg = addConfigurationKey(m.cfg, configurationKeyName,
                                                  Get(variableMetadata.defaultValue), FALSE)]
      ELSE [m EXCEPT !.invalidVariables = @ \cup {variableKey}]

\* the loop over the first n registry entries
RECURSIVE validateMappings(_, _)
validateMappings(m, n) ==
  IF n = 0 THEN m ELSE validateMapping(validateMappings(m, n - 1), VARIABLE_REGISTRY[n])

\* mutation of validatePersistentMappings: the self-check does nothing
validatePersistentMappings_skip(m, fault, failAt) == Returned(m, None)

\* mutation of validatePersistentMappings: invalidVariables is not cleared
validatePersistentMappings_keepInvalid(m, fault, failAt) ==
  IF fault = FaultSelfCheck
  THEN Thrown(validateMappings(m, failAt - 1))
  ELSE Returned(validateMappings(m, Len(VARIABLE_REGISTRY)), None)

\* the self-check; with the fault FaultSelfCheck the store access of entry
\* number failAt throws, after the entries before it were handled
validatePersistentMappings(m, fault, failAt) ==
  LET cleared == [m EXCEPT !.invalidVariables = {}]
  IN  IF fault = FaultSelfCheck
      THEN Thrown(validateMappings(cleared, failAt - 1))
      ELSE Returned(validateMappings(cleared, Len(VARIABLE_REGISTRY)), None)

----------------------------------------------------------------------------
(* getVariable *)

\* whether resolveVariableValue reads the ConfigurationKey store
ResolveReadsStore(variableMetadata) ==
  /\ variableMetadata.persistence = "Persistent"
  /\ variableMetadata.mutability # "WriteOnly"

\* the store after resolveVariableValue: a missing key of a persistent variable
\* is added with the resolved value
Materialized(cfg, variableMetadata, value) ==
  IF /\ ResolveReadsStore(variableMetadata)
     /\ ~IsSome(getConfigurationKey(cfg, computeConfigurationKeyName(variableMetadata)))
  THEN addConfigurationKey(cfg, computeConfigurationKeyName(variableMetadata), value, FALSE)
  ELSE cfg

\* mutation of StoredOr: the store is consulted only when value is empty
StoredOr_whenEmpty(cfg, variableMetadata, value) ==
  LET cfgKey == getConfigurationKey(cfg, computeConfigurationKeyName(variableMetadata))
  IN  IF /\ value = <<>>
         /\ ResolveReadsStore(variableMetadata) /\ IsSome(cfgKey) /\ Get(cfgKey).value # <<>>
      THEN Get(cfgKey).value ELSE value

\* the non-empty value of the configuration key of a persistent variable, else value
StoredOr(cfg, variableMetadata, value) ==
  LET cfgKey == getConfigurationKey(cfg, computeConfigurationKeyName(variableMetadata))
  IN  IF ResolveReadsStore(variableMetadata) /\ IsSome(cfgKey) /\ Get(cfgKey).value # <<>>
      THEN Get(cfgKey).value ELSE value

\* the runtime override of a volatile variable that is not read-only, else value
OverrideOr(overrides, variableMetadata, compositeKey, value) ==
  IF /\ variableMetadata.persistence = "Volatile"
     /\ variableMetadata.mutability # "ReadOnly"
     /\ compositeKey \in DOMAIN overrides
  THEN overrides[compositeKey] ELSE value

\* the live value of the station for the variable called name, when value is empty
LiveOr(variableMetadata, name, live, value) ==
  IF variableMetadata.variable = name /\ value = <<>> THEN live ELSE value

\* the value resolved for a registry entry, given the store after materialization
resolvedValue(m, cfg, variableMetadata, compositeKey) ==
  applyPostProcess(variableMetadata,
    LiveOr(variableMetadata, "TxUpdatedInterval", IntToString(DEFAULT_TX_UPDATED_INTERVAL),
      LiveOr(variableMetadata, "WebSocketPingInterval", StationWebSocketPingInterval,
        LiveOr(variableMetadata, "HeartbeatInterval", StationHeartbeatInterval,
          OverrideOr(m.runtimeOverrides, variableMetadata, compositeKey,
            StoredOr(cfg, variableMetadata, resolveValue(variableMetadata)))))))

resolveWith(m, cfg, variableMetadata, compositeKey) ==
  [m |-> [m EXCEPT !.cfg = cfg],
   value |-> resolvedValue(m, cfg, variableMetadata, compositeKey)]

\* the current value of a variable; a missing configuration key is added on the way
resolveVariableValue(m, component, variable) ==
  LET found == getVariableMetadata(component.name, variable.name,
                                   Coalesce(variable.instance, component.instance))
  IN  IF ~IsSome(found) THEN [m |-> m, value |-> <<>>]
      ELSE resolveWith(m, Materialized(m.cfg, Get(found), resolveValue(Get(found))),
                       Get(found),
                       buildCaseInsensitiveCompositeKey(component.name, component.instance,
                                                        variable.name))

\* the value of a size-control key, read unless the key failed the self-check
SizeLimitRaw(m, variableName) ==
  LET cfgKey == getConfigurationKey(m.cfg, KeyName(variableName, NoInstance))
  IN  IF /\ buildCaseInsensitiveCompositeKey("DeviceDataCtrlr", NoInstance, variableName)
              \notin m.invalidVariables
         /\ IsSome(cfgKey)
      THEN Some(Get(cfgKey).value)
      ELSE None

\* value cut to the limit sizeRaw, when that limit is set and not empty
TruncateTo(value, sizeRaw) ==
  IF IsSome(sizeRaw) /\ Get(sizeRaw) # <<>>
  THEN enforceReportingValueSize(value, Get(sizeRaw)) ELSE value

\* mutation of truncateForRead: ReportingValueSize is not applied
truncateForRead_valueSize(m, value) ==
  Slice(TruncateTo(value, SizeLimitRaw(m, "ValueSize")), OCPP_VALUE_ABSOLUTE_MAX_LENGTH)

\* ValueSize, then ReportingValueSize, then the absolute cap
truncateForRead(m, value) ==
  Slice(TruncateTo(TruncateTo(value, SizeLimitRaw(m, "ValueSize")),
                   SizeLimitRaw(m, "ReportingValueSize")),
        OCPP_VALUE_ABSOLUTE_MAX_LENGTH)

\* mutation of boundResult: the registry's static bound is read before the override
boundResult_staticFirst(override, static, variable, component, attributeType) ==
  IF ~IsSome(static) /\ ~IsSome(override)
  THEN rejectGet(variable, component, attributeType, "NotSupportedAttributeType",
                 "UnsupportedParam",
                 "Attribute type " \o attributeType \o " is not supported for variable "
                   \o variable.name)
  ELSE acceptGet(variable, component, attributeType,
                 IF IsSome(static) THEN IntToString(Get(static)) ELSE Get(override))

\* attribute MinSet or MaxSet: the override, else the registry's static bound
boundResult(override, static, variable, component, attributeType) ==
  IF ~IsSome(static) /\ ~IsSome(override)
  THEN rejectGet(variable, component, attributeType, "NotSupportedAttributeType",
                 "UnsupportedParam",
                 "Attribute type " \o attributeType \o " is not supported for variable "
                   \o variable.name)
  ELSE acceptGet(variable, component, attributeType,
                 IF IsSome(override) THEN Get(override) ELSE IntToString(Get(static)))

getBound(m, variableMetadata, variableKey, variable, component, attributeType) ==
  IF attributeType = MinSet
  THEN boundResult(MapGet(m.minSetOverrides, variableKey), variableMetadata.min,
                   variable, component, attributeType)
  ELSE boundResult(MapGet(m.maxSetOverrides, variableKey), variableMetadata.max,
                   variable, component, attributeType)

\* whether getVariable reads ValueSize or ReportingValueSize from the store
ReadSizeKeysRead(m) ==
  \E n \in {"ValueSize", "ReportingValueSize"} :
    buildCaseInsensitiveCompositeKey("DeviceDataCtrlr", NoInstance, n) \notin m.invalidVariables

\* mutation of valueResult: an empty value is accepted for every attribute of a
\* variable with supportsTarget
valueResult_anyAttribute(r, variableMetadata, variable, component, attributeType, fault) ==
  IF r.value = <<>>
  THEN IF variableMetadata.supportsTarget
       THEN Returned(r.m, acceptGet(variable, component, attributeType, <<>>))
       ELSE Returned(r.m, rejectGet(variable, component, attributeType, "Rejected",
                                    "InvalidValue", "Resolved variable value is empty"))
  ELSE IF fault = FaultStore /\ ReadSizeKeysRead(r.m) THEN Thrown(r.m)
  ELSE Returned(r.m, acceptGet(variable, component, attributeType,
                               truncateForRead(r.m, r.value)))

\* the answer for the resolved value r
valueResult(r, variableMetadata, variable, component, attributeType, fault) ==
  IF r.value = <<>>
  THEN IF attributeType = Target /\ variableMetadata.supportsTarget
       THEN Returned(r.m, acceptGet(variable, component, attributeType, <<>>))
       ELSE Returned(r.m, rejectGet(variable, component, attributeType, "Rejected",
                                    "InvalidValue", "Resolved variable value is empty"))
  ELSE IF fault = FaultStore /\ ReadSizeKeysRead(r.m) THEN Thrown(r.m)
  ELSE Returned(r.m, acceptGet(variable, component, attributeType,
                               truncateForRead(r.m, r.value)))

\* attribute Actual or Target
getValue(m, variableMetadata, variable, component, attributeType, fault) ==
  IF fault = FaultStore /\ ResolveReadsStore(variableMetadata) THEN Thrown(m)
  ELSE valueResult(resolveVariableValue(m, component, variable), variableMetadata,
                   variable, component, attributeType, fault)

\* mutation of isWriteOnlyRead: tests the attribute as the request gave it, so
\* an omitted attribute is not taken for Actual
isWriteOnlyRead_asGiven(found, attributeType, resolvedAttributeType) ==
  /\ IsSome(found)
  /\ Get(found).mutability = "WriteOnly"
  /\ attributeType = Actual

\* a read of the Actual value of a write-only variable; attributeType is the
\* request's, resolvedAttributeType has the default Actual filled in
isWriteOnlyRead(found, attributeType, resolvedAttributeType) ==
  /\ IsSome(found)
  /\ Get(found).mutability = "WriteOnly"
  /\ resolvedAttributeType = Actual

\* getVariable once the metadata found was looked up and the composite key built
getVariableWith(m, variableData, component, variable, resolvedAttributeType, found, variableKey, fault) ==
  IF ~isComponentValid(component)
  THEN Returned(m, rejectGet(variable, component, variableData.attributeType,
                             "UnknownComponent", "NotFound",
                             "Component " \o component.name
                               \o " is not supported by this charging station"))
  ELSE IF ~isVariableSupported(component, variable)
  THEN Returned(m, rejectGet(variable, component, variableData.attributeType,
                             "UnknownVariable", "NotFound",
                             "Variable " \o variable.name \o " is not supported for component "
                               \o component.name))
  ELSE IF isWriteOnlyRead(found, variableData.attributeType, resolvedAttributeType)
  THEN Returned(m, rejectGet(variable, component, resolvedAttributeType, "Rejected",
                             "WriteOnly", "Variable " \o variable.name
                               \o " is write-only and cannot be retrieved"))
  ELSE IF ~IsSome(found) \/ resolvedAttributeType \notin Get(found).supportedAttributes
  THEN Returned(m, rejectGet(variable, component, resolvedAttributeType,
                             "NotSupportedAttributeType", "UnsupportedParam",
                             "Attribute type " \o resolvedAttributeType
                               \o " is not supported for variable " \o variable.name))
  ELSE IF variableKey \in m.invalidVariables
  THEN Returned(m, rejectGet(variable, component, resolvedAttributeType, "Rejected",
                             "InternalError",
                             "Variable mapping invalid (startup self-check failed)"))
  ELSE IF resolvedAttributeType \in {MinSet, MaxSet}
  THEN Returned(m, getBound(m, Get(found), variableKey, variable, component,
                            resolvedAttributeType))
  ELSE getValue(m, Get(found), variable, component, resolvedAttributeType, fault)

getVariable(m, variableData, fault) ==
  getVariableWith(m, variableData, variableData.component, variableData.variable,
    IF variableData.attributeType = Omitted THEN Actual ELSE variableData.attributeType,
    getVariableMetadata(variableData.component.name, variableData.variable.name,
                        Coalesce(variableData.variable.instance,
                                 variableData.component.instance)),
    buildCaseInsensitiveCompositeKey(variableData.component.name,
                                     variableData.component.instance,
                                     variableData.variable.name),
    fault)

----------------------------------------------------------------------------
(* setVariable *)

acceptSet(variable, component, attributeType) ==
  [attributeStatus |-> "Accepted", reasonCode |-> "-", additionalInfo |-> "-",
   attributeType |-> attributeType, attributeValue |-> None,
   component |-> component, variable |-> variable]

rebootRequiredSet(variable, component, attributeType) ==
  [attributeStatus |-> "RebootRequired", reasonCode |-> "NoError",
   additionalInfo |-> "Value changed, reboot required to take effect",
   attributeType |-> attributeType, attributeValue |-> None,
   component |-> component, variable |-> variable]

rejectedSet(m, variable, component, attributeType, reason, info) ==
  Returned(m, rejectSet(variable, component, attributeType, "Rejected", reason, info))

\* mutation of CurrentBound: the other bound is always taken from the registry
CurrentBound_static(override, static) ==
  IF IsSome(static) THEN Some(IntToString(Get(static))) ELSE None

\* the bound in force: the override, else the registry's static bound as a string
CurrentBound(override, static) ==
  IF IsSome(override) THEN override
  ELSE IF IsSome(static) THEN Some(IntToString(Get(static))) ELSE None

\* mutation of storeBound: the override is stored before the bound is checked
\* against the other bound
storeBound_storeFirst(m, variableMetadata, variableKey, variable, component, attributeType, attributeValue, intValue, currentMin, currentMax) ==
  IF attributeType = MinSet
  THEN IF IsSome(currentMax) /\ NumGt(intValue, convertToIntOrNaN(Get(currentMax)))
       THEN rejectedSet([m EXCEPT !.minSetOverrides = MapSet(@, variableKey, attributeValue)],
                        variable, component, attributeType,
                        "InvalidValue", "MinSet higher than MaxSet")
       ELSE Returned([m EXCEPT !.minSetOverrides = MapSet(@, variableKey, attributeValue)],
                     acceptSet(variable, component, attributeType))
  ELSE IF IsSome(currentMin) /\ NumLt(intValue, convertToIntOrNaN(Get(currentMin)))
       THEN rejectedSet([m EXCEPT !.maxSetOverrides = MapSet(@, variableKey, attributeValue)],
                        variable, component, attributeType,
                        "InvalidValue", "MaxSet lower than MinSet")
       ELSE Returned([m EXCEPT !.maxSetOverrides = MapSet(@, variableKey, attributeValue)],
                     acceptSet(variable, component, attributeType))

\* the checks of a bound against the other bound, and the store of the override
storeBound(m, variableMetadata, variableKey, variable, component, attributeType, attributeValue, intValue, currentMin, currentMax) ==
  IF attributeType = MinSet
  THEN IF IsSome(currentMax) /\ NumGt(intValue, convertToIntOrNaN(Get(currentMax)))
       THEN rejectedSet(m, variable, component, attributeType,
                        "InvalidValue", "MinSet higher than MaxSet")
       ELSE Returned([m EXCEPT !.minSetOverrides = MapSet(@, variableKey, attributeValue)],
                     acceptSet(variable, component, attributeType))
  ELSE IF IsSome(currentMin) /\ NumLt(intValue, convertToIntOrNaN(Get(currentMin)))
       THEN rejectedSet(m, variable, component, attributeType,
                        "InvalidValue", "MaxSet lower than MinSet")
       ELSE Returned([m EXCEPT !.maxSetOverrides = MapSet(@, variableKey, attributeValue)],
                     acceptSet(variable, component, attributeType))

\* attribute MinSet or MaxSet: validates the bound and stores the override
setBoundWith(m, variableMetadata, variableKey, variable, component, attributeType, attributeValue, intValue) ==
  IF variableMetadata.dataType # "integer"
  THEN rejectedSet(m, variable, component, attributeType,
                   "InvalidValue", "MinSet/MaxSet only valid for integer data type")
  ELSE IF ~MatchesSignedInteger(attributeValue)
  THEN IF MatchesSignedDecimal(attributeValue)
       THEN rejectedSet(m, variable, component, attributeType,
                        "InvalidValue", "Integer must not be decimal")
       ELSE rejectedSet(m, variable, component, attributeType,
                        "InvalidValue", "Integer required for MinSet/MaxSet")
  ELSE IF IsNaN(intValue)
  THEN rejectedSet(m, variable, component, attributeType,
                   "InvalidValue", "Integer required for MinSet/MaxSet")
  ELSE IF IsSome(variableMetadata.min) /\ intValue.n < Get(variableMetadata.min)
  THEN rejectedSet(m, variable, component, attributeType,
                   "ValueTooLow", "Value below metadata minimum")
  ELSE IF IsSome(variableMetadata.max) /\ intValue.n > Get(variableMetadata.max)
  THEN rejectedSet(m, variable, component, attributeType,
                   "ValueTooHigh", "Value above metadata maximum")
  ELSE storeBound(m, variableMetadata, variableKey, variable, component, attributeType,
                  attributeValue, intValue,
                  CurrentBound(MapGet(m.minSetOverrides, variableKey), variableMetadata.min),
                  CurrentBound(MapGet(m.maxSetOverrides, variableKey), variableMetadata.max))

setBound(m, variableMetadata, variableKey, variable, component, attributeType, attributeValue) ==
  setBoundWith(m, variableMetadata, variableKey, variable, component, attributeType,
               attributeValue, convertToIntOrNaN(attributeValue))

\* the size-control value as a number, NaN when the key is unset
SizeLimit(m, variableName) ==
  LET raw == SizeLimitRaw(m, variableName)
  IN  convertToIntOrNaN(IF IsSome(raw) THEN Get(raw) ELSE <<>>)

\* a limit counts when it is a number above 0
PositiveLimit(x) == IF ~IsNaN(x) /\ x.n > 0 THEN Some(x.n) ELSE None

\* mutation of SmallerLimit: ConfigurationValueSize wins whenever it counts
SmallerLimit_first(a, b) == IF IsSome(a) THEN a ELSE b

\* the smaller of the limits that count
SmallerLimit(a, b) ==
  IF IsSome(b) THEN (IF IsSome(a) THEN Some(Min2(Get(a), Get(b))) ELSE b) ELSE a

\* the absolute cap when no limit counts, and never more than the absolute cap
CappedLimit(l) ==
  IF ~IsSome(l) \/ Get(l) <= 0 THEN OCPP_VALUE_ABSOLUTE_MAX_LENGTH
  ELSE IF Get(l) > OCPP_VALUE_ABSOLUTE_MAX_LENGTH THEN OCPP_VALUE_ABSOLUTE_MAX_LENGTH
  ELSE Get(l)

\* the limit on the length of a value written with attribute Actual
effectiveLimit(m) ==
  CappedLimit(SmallerLimit(PositiveLimit(SizeLimit(m, "ConfigurationValueSize")),
                           PositiveLimit(SizeLimit(m, "ValueSize"))))

\* mutation of checkOverrides: the overrides are not enforced
checkOverrides_none(num, overrideMinRaw, overrideMaxRaw, variable, component, attributeType) == None

\* the MinSet/MaxSet overrides in force on an integer value written
checkOverrides(num, overrideMinRaw, overrideMaxRaw, variable, component, attributeType) ==
  IF IsSome(overrideMinRaw) /\ NumLt(num, convertToIntOrNaN(Get(overrideMinRaw)))
  THEN Some(rejectSet(variable, component, attributeType, "Rejected",
                      "ValueTooLow", "Value below MinSet override"))
  ELSE IF IsSome(overrideMaxRaw) /\ NumGt(num, convertToIntOrNaN(Get(overrideMaxRaw)))
  THEN Some(rejectSet(variable, component, attributeType, "Rejected",
                      "ValueTooHigh", "Value above MaxSet override"))
  ELSE None

validated(m, validation, variableMetadata, variableKey, variable, component, attributeType, attributeValue) ==
  IF ~validation.ok
  THEN Some(rejectSet(variable, component, attributeType, "Rejected",
                      validation.reason, validation.info))
  ELSE IF variableMetadata.dataType = "integer" /\ ~IsNaN(convertToIntOrNaN(attributeValue))
  THEN checkOverrides(convertToIntOrNaN(attributeValue),
                      MapGet(m.minSetOverrides, variableKey),
                      MapGet(m.maxSetOverrides, variableKey),
                      variable, component, attributeType)
  ELSE None

\* the validation of a value written with attribute Actual or Target: None when
\* the value passes, else the rejection
validateActual(m, variableMetadata, variableKey, variable, component, attributeType, attributeValue) ==
  IF component.name = "AuthCtrlr" /\ variable.name = "AuthorizeRemoteStart"
  THEN IF attributeValue \notin {<<"t", "r", "u", "e">>, <<"f", "a", "l", "s", "e">>}
       THEN Some(rejectSet(variable, component, attributeType, "Rejected", "InvalidValue",
                           "AuthorizeRemoteStart must be \"true\" or \"false\""))
       ELSE None
  ELSE validated(m, validateValue(variableMetadata, attributeValue), variableMetadata,
                 variableKey, variable, component, attributeType, attributeValue)

\* whether the write path writes the ConfigurationKey store
WritesStore(variableMetadata) ==
  /\ variableMetadata.persistence = "Persistent"
  /\ variableMetadata.mutability # "WriteOnly"

\* the store after the write path: the key is added, or its value set when it differs
writeStore(cfg, variableMetadata, configurationKeyName, attributeValue) ==
  IF ~WritesStore(variableMetadata) THEN cfg
  ELSE IF ~IsSome(getConfigurationKey(cfg, configurationKeyName))
  THEN addConfigurationKey(cfg, configurationKeyName, attributeValue, FALSE)
  ELSE IF Get(getConfigurationKey(cfg, configurationKeyName)).value # attributeValue
  THEN setConfigurationKeyValue(cfg, configurationKeyName, attributeValue)
  ELSE cfg

\* mutation of rebootRequiredFor: does not look whether the value changed
rebootRequiredFor_unchanged(variableMetadata, previous, written, attributeValue) ==
  /\ WritesStore(variableMetadata)
  /\ variableMetadata.rebootRequired \/ (IsSome(written) /\ Get(written).reboot)

\* rebootRequired: the metadata or the key asks for a reboot, and the value changed
rebootRequiredFor(variableMetadata, previous, written, attributeValue) ==
  /\ WritesStore(variableMetadata)
  /\ variableMetadata.rebootRequired \/ (IsSome(written) /\ Get(written).reboot)
  /\ ~(IsSome(previous) /\ Get(previous).value = attributeValue)

RestartsHeartbeat(variable, num) ==
  variable.name = "HeartbeatInterval" /\ ~IsNaN(num) /\ num.n > 0

RestartsWebSocketPing(variable, num) ==
  variable.name = "WebSocketPingInterval" /\ ~IsNaN(num) /\ num.n >= 0

\* a call of a restart method of the station that returned
Restarted(m, called, method) ==
  IF called THEN [m EXCEPT !.restarts = Append(@, method)] ELSE m

\* the runtime override of a volatile variable
Overridden(m, variableMetadata, variableKey, attributeValue) ==
  IF variableMetadata.persistence = "Volatile"
  THEN [m EXCEPT !.runtimeOverrides = MapSet(@, variableKey, attributeValue)]
  ELSE m

\* after the store was written (m holds the written store): the restarts, the
\* runtime override and the result
afterWrite(m, rebootRequired, variableMetadata, variableKey, variable, component, attributeType, attributeValue, num, fault) ==
  IF RestartsHeartbeat(variable, num) /\ fault = FaultRestartHeartbeat THEN Thrown(m)
  ELSE IF RestartsWebSocketPing(variable, num) /\ fault = FaultRestartWebSocketPing
  THEN Thrown(Restarted(m, RestartsHeartbeat(variable, num), "restartHeartbeat"))
  ELSE Returned(
         Overridden(
           Restarted(Restarted(m, RestartsHeartbeat(variable, num), "restartHeartbeat"),
                     RestartsWebSocketPing(variable, num), "restartWebSocketPing"),
           variableMetadata, variableKey, attributeValue),
         IF rebootRequired THEN rebootRequiredSet(variable, component, attributeType)
         ELSE acceptSet(variable, component, attributeType))

written(m, cfg, configurationKeyName, variableMetadata, variableKey, variable, component, attributeType, attributeValue, fault) ==
  afterWrite([m EXCEPT !.cfg = cfg],
             rebootRequiredFor(variableMetadata,
                               getConfigurationKey(m.cfg, configurationKeyName),
                               getConfigurationKey(cfg, configurationKeyName),
                               attributeValue),
             variableMetadata, variableKey, variable, component, attributeType,
             attributeValue, convertToIntOrNaN(attributeValue), fault)

\* the write of a validated value, the restarts it triggers, and the result
writeValue(m, variableMetadata, variableKey, variable, component, attributeType, attributeValue, fault) ==
  IF fault = FaultStore THEN Thrown(m)
  ELSE written(m,
               writeStore(m.cfg, variableMetadata,
                          computeConfigurationKeyName(variableMetadata), attributeValue),
               computeConfigurationKeyName(variableMetadata),
               variableMetadata, variableKey, variable, component, attributeType,
               attributeValue, fault)

\* whether setVariable reads ConfigurationValueSize or ValueSize from the store
WriteSizeKeysRead(m) ==
  \E n \in {"ConfigurationValueSize", "ValueSize"} :
    buildCaseInsensitiveCompositeKey("DeviceDataCtrlr", NoInstance, n) \notin m.invalidVariables

\* attribute Actual or Target on a variable that is not read-only
setValue(m, variableMetadata, variableKey, variable, component, attributeType, attributeValue, invalid, fault) ==
  IF attributeType = Actual /\ fault = FaultStore /\ WriteSizeKeysRead(m)
  THEN Thrown(m)
  ELSE IF attributeType = Actual /\ Len(attributeValue) > effectiveLimit(m)
  THEN rejectedSet(m, variable, component, attributeType, "TooLargeElement",
                   "Value length exceeds effective size limit (" \o toString(effectiveLimit(m))
                     \o ")")
  ELSE IF IsSome(invalid) THEN Returned(m, Get(invalid))
  ELSE writeValue(m, variableMetadata, variableKey, variable, component, attributeType,
                  attributeValue, fault)

\* mutation of setChecked: a read-only variable rejects every write, bounds included
setChecked_readOnlyFirst(m, variableMetadata, variableKey, variable, component, attributeType, attributeValue, fault) ==
  IF variableMetadata.mutability = "ReadOnly"
  THEN rejectedSet(m, variable, component, attributeType, "ReadOnly",
                   "Variable " \o variable.name \o " is read-only")
  ELSE IF attributeType \in {MinSet, MaxSet}
  THEN setBound(m, variableMetadata, variableKey, variable, component, attributeType,
                attributeValue)
  ELSE setValue(m, variableMetadata, variableKey, variable, component, attributeType,
                attributeValue,
                validateActual(m, variableMetadata, variableKey, variable, component,
                               attributeType, attributeValue),
                fault)

\* after the invalid-variable check (m: a write-only variable that failed the
\* self-check is valid again)
setChecked(m, variableMetadata, variableKey, variable, component, attributeType, attributeValue, fault) ==
  IF attributeType \in {MinSet, MaxSet}
  THEN setBound(m, variableMetadata, variableKey, variable, component, attributeType,
                attributeValue)
  ELSE IF variableMetadata.mutability = "ReadOnly"
  THEN rejectedSet(m, variable, component, attributeType, "ReadOnly",
                   "Variable " \o variable.name \o " is read-only")
  ELSE setValue(m, variableMetadata, variableKey, variable, component, attributeType,
                attributeValue,
                validateActual(m, variableMetadata, variableKey, variable, component,
                               attributeType, attributeValue),
                fault)

\* mutation of isInvalidWrite: the self-check's verdict is looked at for Target
\* writes instead of Actual writes
isInvalidWrite_target(m, variableKey, resolvedAttributeType) ==
  variableKey \in m.invalidVariables /\ resolvedAttributeType = Target

\* mutation of isInvalidWrite: a write never meets the invalid-variable check
isInvalidWrite_never(m, variableKey, resolvedAttributeType) == FALSE

\* a write of the Actual value of a variable that failed the self-check
isInvalidWrite(m, variableKey, resolvedAttributeType) ==
  variableKey \in m.invalidVariables /\ resolvedAttributeType = Actual

\* setVariable once the metadata found was looked up and the composite key built
setVariableWith(m, component, variable, attributeValue, resolvedAttributeType, found, variableKey, fault) ==
  IF ~isComponentValid(component)
  THEN Returned(m, rejectSet(variable, component, resolvedAttributeType,
                             "UnknownComponent", "NotFound",
                             "Component " \o component.name
                               \o " is not supported by this charging station"))
  ELSE IF ~isVariableSupported(component, variable)
  THEN Returned(m, rejectSet(variable, component, resolvedAttributeType,
                             "UnknownVariable", "NotFound",
                             "Variable " \o variable.name \o " is not supported for component "
                               \o component.name))
  ELSE IF ~IsSome(found) \/ resolvedAttributeType \notin Get(found).supportedAttributes
  THEN Returned(m, rejectSet(variable, component, resolvedAttributeType,
                             "NotSupportedAttributeType", "UnsupportedParam",
                             "Attribute type " \o resolvedAttributeType
                               \o " is not supported for variable " \o variable.name))
  ELSE IF isInvalidWrite(m, variableKey, resolvedAttributeType)
  THEN IF Get(found).mutability # "WriteOnly"
       THEN rejectedSet(m, variable, component, resolvedAttributeType, "InternalError",
                        "Variable mapping invalid (startup self-check failed)")
       ELSE setChecked([m EXCEPT !.invalidVariables = @ \ {variableKey}], Get(found),
                       variableKey, variable, component, resolvedAttributeType,
                       attributeValue, fault)
  ELSE setChecked(m, Get(found), variableKey, variable, component, resolvedAttributeType,
                  attributeValue, fault)

setVariable(m, variableData, fault) ==
  setVariableWith(m, variableData.component, variableData.variable,
    variableData.attributeValue,
    IF variableData.attributeType = Omitted THEN Actual ELSE variableData.attributeType,
    getVariableMetadata(variableData.component.name, variableData.variable.name,
                        Coalesce(variableData.variable.instance,
                                 variableData.component.instance)),
    buildCaseInsensitiveCompositeKey(variableData.component.name,
                                     variableData.component.instance,
                                     variableData.variable.name),
    fault)

----------------------------------------------------------------------------
(* getVariables and setVariables: the self-check, then the loop over the items *)

\* the result pushed by the catch block of getVariables
getInternalError(variableData) ==
  [attributeStatus |-> "Rejected", reasonCode |-> "InternalError",
   additionalInfo |-> "Internal error occurred while retrieving variable",
   attributeType |-> variableData.attributeType, attributeValue |-> None,
   component |-> variableData.component, variable |-> variableData.variable]

\* the result pushed by the catch block of setVariables
setInternalError(variableData) ==
  [attributeStatus |-> "Rejected", reasonCode |-> "InternalError",
   additionalInfo |-> "Internal error occurred while setting variable",
   attributeType |-> IF variableData.attributeType = Omitted THEN Actual
                     ELSE variableData.attributeType,
   attributeValue |-> None,
   component |-> variableData.component, variable |-> variableData.variable]

\* what the four stores of a set hold
Stores(m) == <<m.cfg, m.runtimeOverrides, m.minSetOverrides, m.maxSetOverrides>>

\* mutation of Pushed: the catch block pushes no result
Pushed_dropFailed(acc, r, internalError) ==
  [m |-> r.m,
   results |-> IF r.threw THEN acc.results ELSE Append(acc.results, r.res),
   wrote |-> IF r.threw THEN acc.wrote ELSE Append(acc.wrote, Stores(r.m) # Stores(acc.m))]

\* results.push: the result of the item, or the catch block's result; wrote
\* records whether the item changed a store
Pushed(acc, r, internalError) ==
  [m |-> r.m,
   results |-> Append(acc.results, IF r.threw THEN internalError ELSE r.res),
   wrote |-> Append(acc.wrote, Stores(r.m) # Stores(acc.m))]

\* one iteration of the loop of getVariables: try getVariable, catch
getItem(acc, variableData, fault) ==
  Pushed(acc, getVariable(acc.m, variableData, fault), getInternalError(variableData))

\* one iteration of the loop of setVariables: try setVariable, catch
setItem(acc, variableData, fault) ==
  Pushed(acc, setVariable(acc.m, variableData, fault), setInternalError(variableData))

RECURSIVE getItems(_, _, _, _)
getItems(acc, data, n, fault) ==
  IF n = 0 THEN acc ELSE getItem(getItems(acc, data, n - 1, fault), data[n], fault)

RECURSIVE setItems(_, _, _, _)
setItems(acc, data, n, fault) ==
  IF n = 0 THEN acc ELSE setItem(setItems(acc, data, n - 1, fault), data[n], fault)

\* mutation of Manager: every station has overrides of its own, and those of
\* station CS2 are empty
Manager_perStation(s) ==
  [cfg |-> store[s], invalidVariables |-> invalidVariables,
   runtimeOverrides |-> IF s = "CS2" THEN <<>> ELSE runtimeOverrides,
   minSetOverrides |-> IF s = "CS2" THEN <<>> ELSE minSetOverrides,
   maxSetOverrides |-> IF s = "CS2" THEN <<>> ELSE maxSetOverrides, restarts |-> <<>>]

\* the manager state a call for station s works on
Manager(s) ==
  [cfg |-> store[s], invalidVariables |-> invalidVariables,
   runtimeOverrides |-> runtimeOverrides, minSetOverrides |-> minSetOverrides,
   maxSetOverrides |-> maxSetOverrides, restarts |-> <<>>]

\* the state after a call for station s, and the record of the call
Commit(s, m, call) ==
  /\ store' = [store EXCEPT ![s] = m.cfg]
  /\ invalidVariables' = m.invalidVariables
  /\ runtimeOverrides' = m.runtimeOverrides
  /\ minSetOverrides' = m.minSetOverrides
  /\ maxSetOverrides' = m.maxSetOverrides
  /\ last' = call
  /\ UNCHANGED stationVars

Call(op, s, data, threw, results, wrote, restarts) ==
  [op |-> op, station |-> s, data |-> data, threw |-> threw, results |-> results,
   wrote |-> wrote, restarts |-> restarts]

\* the call returned the results of its loop
CommitReturn(op, s, data, done) ==
  Commit(s, done.m, Call(op, s, data, FALSE, done.results, done.wrote, done.m.restarts))

\* the self-check threw: the exception leaves the call
CommitThrow(op, s, data, m) ==
  Commit(s, m, Call(op, s, data, TRUE, <<>>, <<>>, <<>>))

GetVariablesAfter(s, data, checked, fault) ==
  IF checked.threw THEN CommitThrow("getVariables", s, data, checked.m)
  ELSE CommitReturn("getVariables", s, data,
         getItems([m |-> checked.m, results |-> <<>>, wrote |-> <<>>],
                  data, Len(data), fault))

SetVariablesAfter(s, data, checked, fault) ==
  IF checked.threw THEN CommitThrow("setVariables", s, data, checked.m)
  ELSE CommitReturn("setVariables", s, data,
         setItems([m |-> checked.m, results |-> <<>>, wrote |-> <<>>],
                  data, Len(data), fault))

\* getVariables(chargingStation, getVariableData)
GetVariables(s, data, fault, failAt) ==
  GetVariablesAfter(s, data, validatePersistentMappings(Manager(s), fault, failAt), fault)

\* setVariables(chargingStation, setVariableData)
SetVariables(s, data, fault, failAt) ==
  SetVariablesAfter(s, data, validatePersistentMappings(Manager(s), fault, failAt), fault)

\* mutation of ResetRuntimeOverrides: the override of TxUpdatedInterval is kept
ResetRuntimeOverrides_keepOne ==
  /\ runtimeOverrides' =
       [k \in DOMAIN runtimeOverrides \cap {<<"sampleddatactrlr", "-", "txupdatedinterval">>}
          |-> runtimeOverrides[k]]
  /\ last' = [op |-> "resetRuntimeOverrides", station |-> "-", data |-> <<>>,
              threw |-> FALSE, results |-> <<>>, wrote |-> <<>>, restarts |-> <<>>]
  /\ UNCHANGED <<store, invalidVariables, minSetOverrides, maxSetOverrides>>
  /\ UNCHANGED stationVars

\* resetRuntimeOverrides()
ResetRuntimeOverrides ==
  /\ runtimeOverrides' = <<>>
  /\ last' = Call("resetRuntimeOverrides", "-", <<>>, FALSE, <<>>, <<>>, <<>>)
  /\ UNCHANGED <<store, invalidVariables, minSetOverrides, maxSetOverrides>>
  /\ UNCHANGED stationVars

----------------------------------------------------------------------------
(* Requests, stations and initial states *)

\* the longest batch of several items
MaxBatch == 2

Stations == {"CS1", "CS2"}

Component(name) == [name |-> name, instance |-> NoInstance]

Variable(name) == [name |-> name, instance |-> NoInstance]

\* a variable of the device model, as a request names it
Target_(componentName, variableName) ==
  [component |-> Component(componentName), variable |-> Variable(variableName)]

GetRequests(targets, attributeTypes) ==
  {[component |-> t.component, variable |-> t.variable, attributeType |-> a] :
     t \in targets, a \in attributeTypes}

SetRequests(targets, attributeTypes, values) ==
  UNION {{[component |-> t.component, variable |-> t.variable, attributeType |-> a,
           attributeValue |-> v] : t \in targets, a \in attributeTypes} : v \in values}

\* the sequences over items of length 2..MaxBatch
RECURSIVE SeqsOfLength(_, _)
SeqsOfLength(items, n) ==
  IF n = 0 THEN {<<>>}
  ELSE {Append(b, r) : b \in SeqsOfLength(items, n - 1), r \in items}

\* every single request, and every batch of 2..MaxBatch of the batch items
Batches(requests, batchItems) ==
  {<<r>> : r \in requests} \cup UNION {SeqsOfLength(batchItems, n) : n \in 2..MaxBatch}

\* the registry entries whose store access can fail in the self-check
FailPoints == {i \in 1..Len(VARIABLE_REGISTRY) : SelfChecked(VARIABLE_REGISTRY[i])}

EmptyStore == [k \in KeyNames |-> None]

WithKey(cfg, variableName, value, reboot) ==
  [cfg EXCEPT ![KeyName(variableName, NoInstance)] = Some([value |-> value, reboot |-> reboot])]

NoCall == Call("none", "-", <<>>, FALSE, <<>>, <<>>, <<>>)

InitWith(stores) ==
  /\ store \in [Stations -> stores]
  /\ store["CS2"] = EmptyStore
  /\ invalidVariables = {}
  /\ runtimeOverrides = <<>>
  /\ minSetOverrides = <<>>
  /\ maxSetOverrides = <<>>
  /\ last = NoCall
  /\ StationIdle

----------------------------------------------------------------------------
(* Spec: reads and writes of the Actual value of every kind of variable *)

VTrue == <<"t", "r", "u", "e">>

VFalse == <<"f", "a", "l", "s", "e">>

V20 == <<"2", "0">>

V30 == <<"3", "0">>

VDecimal == <<"1", ".", "5">>

\* an integer written with a leading zero
V01 == <<"0", "1">>

MainTargets ==
  {Target_("AuthCtrlr", "AuthorizeRemoteStart"),
   Target_("authctrlr", "authorizeRemoteStart"),
   Target_("AuthCtrlr", "authorizeRemoteStart"),
   Target_("ChargingStation", "WebSocketPingInterval"),
   Target_("SampledDataCtrlr", "TxUpdatedInterval"),
   Target_("SecurityCtrlr", "BasicAuthPassword"),
   Target_("SecurityCtrlr", "CertificateEntries"),
   Target_("AuthCtrlr", "NoSuchVariable"),
   Target_("EVSE", "AuthorizeRemoteStart")}

MainGets == GetRequests(MainTargets, {Omitted, Actual})

MainSets == SetRequests(MainTargets, {Omitted, Actual}, {VTrue, V20, VDecimal})

MainBatchItems ==
  SetRequests({Target_("ChargingStation", "WebSocketPingInterval")}, {Actual}, {V20})
    \cup SetRequests({Target_("SecurityCtrlr", "CertificateEntries")}, {Actual}, {V20})
    \cup SetRequests({Target_("DeviceDataCtrlr", "ValueSize")}, {Actual}, {V01})

\* the stores a station boots with: empty, or holding the read-only key, or
\* holding a key flagged reboot
MainStores ==
  {EmptyStore,
   WithKey(EmptyStore, "CertificateEntries", <<"3">>, FALSE),
   WithKey(EmptyStore, "WebSocketPingInterval", V30, TRUE)}

Init == InitWith(MainStores)

Next ==
  \/ \E data \in Batches(MainGets, {}) : GetVariables("CS1", data, NoFault, 1)
  \/ \E data \in Batches(MainSets, MainBatchItems) : SetVariables("CS1", data, NoFault, 1)
  \/ ResetRuntimeOverrides

Spec == Init /\ [][Next]_vars

----------------------------------------------------------------------------
(* What the requests of the last call name *)

\* the registry entry a request item names, when its component is supported
MetadataOf(d) ==
  IF isComponentValid(d.component)
  THEN getVariableMetadata(d.component.name, d.variable.name,
                           Coalesce(d.variable.instance, d.component.instance))
  ELSE None

\* the request item reads or writes the Actual value
IsActual(d) == d.attributeType \in {Omitted, Actual}

KeyOf(d) ==
  buildCaseInsensitiveCompositeKey(d.component.name, d.component.instance, d.variable.name)

Items == 1..Len(last.results)

Status(i) == last.results[i].attributeStatus

Reason(i) == last.results[i].reasonCode

----------------------------------------------------------------------------
(* C1 *)

\* C1: a getVariable of the Actual value (attribute Actual or omitted) of a
\* write-only variable is answered Rejected with reason WriteOnly and carries no
\* attributeValue, in every state the calls reach.
C1_WriteOnlyNeverRead ==
  last.op = "getVariables" =>
    \A i \in Items :
      (/\ IsActual(last.data[i])
       /\ IsSome(MetadataOf(last.data[i]))
       /\ Get(MetadataOf(last.data[i])).mutability = "WriteOnly")
      => /\ Status(i) = "Rejected"
         /\ Reason(i) = "WriteOnly"
         /\ last.results[i].attributeValue = None

\* a read of BasicAuthPassword with the attribute omitted was answered
C1_Witness ==
  /\ last.op = "getVariables"
  /\ Len(last.results) = 1
  /\ last.data[1].variable.name = "BasicAuthPassword"
  /\ last.data[1].attributeType = Omitted
  /\ Reason(1) = "WriteOnly"

----------------------------------------------------------------------------
(* C2 *)

\* a write of the Actual value of a read-only variable
ReadOnlyWrite(i) ==
  /\ last.op = "setVariables"
  /\ IsActual(last.data[i])
  /\ IsSome(MetadataOf(last.data[i]))
  /\ Get(MetadataOf(last.data[i])).mutability = "ReadOnly"

\* C2 as stated: a setVariable of the Actual value of a read-only variable is
\* answered Rejected with reason ReadOnly in every state, also when the variable
\* is in invalidVariables.
C2_AlwaysReadOnly ==
  \A i \in Items : ReadOnlyWrite(i) => Status(i) = "Rejected" /\ Reason(i) = "ReadOnly"

\* C2 amended: a setVariable of the Actual value of a read-only variable is
\* answered Rejected; the reason is ReadOnly when the variable passed the
\* self-check and InternalError when it is in invalidVariables.
C2_ReadOnlyUnlessInvalid ==
  \A i \in Items :
    ReadOnlyWrite(i) =>
      /\ Status(i) = "Rejected"
      /\ Reason(i) = IF KeyOf(last.data[i]) \in invalidVariables
                     THEN "InternalError" ELSE "ReadOnly"

\* a write of the read-only CertificateEntries, which failed the self-check
C2_Witness ==
  /\ Len(last.results) = 1
  /\ ReadOnlyWrite(1)
  /\ KeyOf(last.data[1]) \in invalidVariables
  /\ Reason(1) = "InternalError"

----------------------------------------------------------------------------
(* C6 *)

\* the request item names AuthCtrlr/AuthorizeRemoteStart in some letter case
NamesAuthorizeRemoteStart(d) ==
  /\ Lower(d.component.name) = "authctrlr"
  /\ Lower(d.variable.name) = "authorizeremotestart"

\* the same request with the names in the registry's casing
Canonical(d) ==
  [d EXCEPT !.component.name = "AuthCtrlr", !.variable.name = "AuthorizeRemoteStart"]

\* the manager state the items of the next call see
AfterSelfCheck == validatePersistentMappings(Manager("CS1"), NoFault, 1).m

\* what the same call answers to the request d
Answer(op, d) ==
  IF op = "getVariables" THEN getVariable(AfterSelfCheck, d, NoFault).res
  ELSE setVariable(AfterSelfCheck, d, NoFault).res

\* C6: a request that names AuthCtrlr/AuthorizeRemoteStart in another letter case
\* gets the status, reason code and value of the request in the registry's
\* casing, and the result echoes the names as the request gave them.
C6_CaseInsensitive ==
  [][(/\ last'.op \in {"getVariables", "setVariables"}
      /\ Len(last'.data) = 1
      /\ NamesAuthorizeRemoteStart(last'.data[1]))
     => /\ last'.results[1].attributeStatus
             = Answer(last'.op, Canonical(last'.data[1])).attributeStatus
        /\ last'.results[1].reasonCode
             = Answer(last'.op, Canonical(last'.data[1])).reasonCode
        /\ last'.results[1].attributeValue
             = Answer(last'.op, Canonical(last'.data[1])).attributeValue
        /\ last'.results[1].component = last'.data[1].component
        /\ last'.results[1].variable = last'.data[1].variable]_vars

----------------------------------------------------------------------------
(* C7 *)

\* items i and i + 1 of a setVariables call write the same value to the same
\* variable, and the first write was not rejected
WrittenTwice(i) ==
  /\ last.op = "setVariables"
  /\ i + 1 \in Items
  /\ last.data[i] = last.data[i + 1]
  /\ Status(i) \in {"Accepted", "RebootRequired"}

\* the variable sets the size limit of the values written
SetsSizeLimit(d) ==
  /\ Lower(d.component.name) = "devicedatactrlr"
  /\ Lower(d.variable.name) \in {"configurationvaluesize", "valuesize"}

\* C7 as stated: setVariable(v, x) twice in a row returns Accepted both times.
C7_AcceptedBothTimes ==
  \A i \in Items : WrittenTwice(i) => Status(i) = "Accepted" /\ Status(i + 1) = "Accepted"

\* C7 amended: when setVariable(v, x) is not rejected (it returns Accepted, or
\* RebootRequired when the key is flagged reboot and the value changes), the same
\* setVariable(v, x) right after it never returns RebootRequired: it returns
\* Accepted, or TooLargeElement when v is ConfigurationValueSize or ValueSize
\* and the first write lowered the size limit below the length of x.
C7_SecondNeverReboot ==
  \A i \in Items :
    WrittenTwice(i) =>
      \/ Status(i + 1) = "Accepted"
      \/ /\ SetsSizeLimit(last.data[i])
         /\ Status(i + 1) = "Rejected"
         /\ Reason(i + 1) = "TooLargeElement"

\* the first write changed a key flagged reboot, the second changed nothing
C7_Witness ==
  /\ WrittenTwice(1)
  /\ Status(1) = "RebootRequired"
  /\ Status(2) = "Accepted"

----------------------------------------------------------------------------
(* SpecBounds: writes and reads of the MinSet and MaxSet bounds *)

V0 == <<"0">>

\* one more than the registry's maximum of HeartbeatInterval
V86401 == <<"8", "6", "4", "0", "1">>

BoundTargets ==
  {Target_("OCPPCommCtrlr", "HeartbeatInterval"),
   Target_("SecurityCtrlr", "CertificateEntries"),
   Target_("AuthCtrlr", "AuthorizeRemoteStart")}

BoundGets == GetRequests(BoundTargets, {MinSet, MaxSet})

BoundSets ==
  SetRequests({Target_("OCPPCommCtrlr", "HeartbeatInterval")}, {MinSet, MaxSet},
              {V0, V20, V30, VDecimal, V86401})
    \cup SetRequests({Target_("SecurityCtrlr", "CertificateEntries")}, {MinSet, MaxSet},
                     {V0, V20})
    \cup SetRequests({Target_("AuthCtrlr", "AuthorizeRemoteStart")}, {MinSet}, {V20})

BoundBatchItems ==
  SetRequests({Target_("OCPPCommCtrlr", "HeartbeatInterval")}, {MinSet}, {V30})
    \cup SetRequests({Target_("OCPPCommCtrlr", "HeartbeatInterval")}, {MaxSet}, {V20})

InitBounds == InitWith({EmptyStore})

NextBounds ==
  \/ \E data \in Batches(BoundGets, {}) : GetVariables("CS1", data, NoFault, 1)
  \/ \E data \in Batches(BoundSets, BoundBatchItems) : SetVariables("CS1", data, NoFault, 1)

SpecBounds == InitBounds /\ [][NextBounds]_vars

----------------------------------------------------------------------------
(* C3 *)

\* the composite keys under which the bounds of a registry entry are stored
KeysOfEntry(e) ==
  {buildCaseInsensitiveCompositeKey(e.component, e.instance, e.variable),
   buildCaseInsensitiveCompositeKey(e.component, NoInstance, e.variable)}

\* the bound in force as a number: the override, else the registry's
EffectiveBound(overrides, k, static) ==
  IF k \in DOMAIN overrides THEN Some(convertToIntOrNaN(overrides[k]))
  ELSE IF IsSome(static) THEN Some(Num(Get(static))) ELSE None

\* a stored override is an integer within the registry's minimum and maximum
WithinStatic(overrides, k, e) ==
  k \in DOMAIN overrides =>
    /\ MatchesSignedInteger(overrides[k])
    /\ IsSome(e.min) => convertToIntOrNaN(overrides[k]).n >= Get(e.min)
    /\ IsSome(e.max) => convertToIntOrNaN(overrides[k]).n <= Get(e.max)

\* C3: in every state reached by setVariable calls with attribute MinSet or
\* MaxSet, for every composite key, the MinSet in force (the override, else the
\* registry's min) is at most the MaxSet in force (the override, else the
\* registry's max), and every stored override lies within the registry's min and
\* max where those are defined.
C3_BoundsOrdered ==
  \A e \in RegistryEntries : \A k \in KeysOfEntry(e) :
    /\ WithinStatic(minSetOverrides, k, e)
    /\ WithinStatic(maxSetOverrides, k, e)
    /\ (/\ IsSome(EffectiveBound(minSetOverrides, k, e.min))
        /\ IsSome(EffectiveBound(maxSetOverrides, k, e.max)))
       => /\ ~IsNaN(Get(EffectiveBound(minSetOverrides, k, e.min)))
          /\ ~IsNaN(Get(EffectiveBound(maxSetOverrides, k, e.max)))
          /\ Get(EffectiveBound(minSetOverrides, k, e.min)).n
               <= Get(EffectiveBound(maxSetOverrides, k, e.max)).n

\* both bounds of HeartbeatInterval are overridden and a MinSet above the MaxSet
\* override was rejected
C3_Witness ==
  /\ KeyOf(Target_("OCPPCommCtrlr", "HeartbeatInterval")) \in DOMAIN minSetOverrides
  /\ KeyOf(Target_("OCPPCommCtrlr", "HeartbeatInterval")) \in DOMAIN maxSetOverrides
  /\ last.op = "setVariables"
  /\ Len(last.results) = 1
  /\ last.data[1].attributeType = MinSet
  /\ last.results[1].additionalInfo = "MinSet higher than MaxSet"

----------------------------------------------------------------------------
(* SpecSize: writes and reads under the size limits of DeviceDataCtrlr *)

V2 == <<"2">>

V3 == <<"3">>

V4 == <<"4">>

\* one more than the absolute cap
V2501 == <<"2", "5", "0", "1">>

\* a value that is no integer
VAbc == <<"a", "b", "c">>

\* the stores a station boots with: the size limits unset, not positive, both
\* set either way round, above the absolute cap, and a limit on reads
SizeStores ==
  {EmptyStore,
   WithKey(EmptyStore, "ConfigurationValueSize", V0, FALSE),
   WithKey(WithKey(EmptyStore, "ConfigurationValueSize", V2, FALSE), "ValueSize", V3, FALSE),
   WithKey(WithKey(EmptyStore, "ConfigurationValueSize", V3, FALSE), "ValueSize", V2, FALSE),
   WithKey(EmptyStore, "ConfigurationValueSize", V2501, FALSE),
   WithKey(WithKey(EmptyStore, "ValueSize", V3, FALSE), "ReportingValueSize", <<"1">>, FALSE)}

SizeGets ==
  GetRequests({Target_("AuthCtrlr", "AuthorizeRemoteStart"),
               Target_("OCPPCommCtrlr", "HeartbeatInterval"),
               Target_("DeviceDataCtrlr", "ValueSize")}, {Actual})
    \cup GetRequests({Target_("OCPPCommCtrlr", "HeartbeatInterval")}, {MinSet, MaxSet})
    \cup GetRequests({Target_("TxCtrlr", "EVConnectionTimeOut")}, {Target})

SizeSets ==
  SetRequests({Target_("SecurityCtrlr", "BasicAuthPassword")}, {Actual},
              {Repeat("a", n) : n \in {2, 3, 4, OCPP_VALUE_ABSOLUTE_MAX_LENGTH,
                                       OCPP_VALUE_ABSOLUTE_MAX_LENGTH + 1}})
    \cup SetRequests({Target_("SampledDataCtrlr", "TxUpdatedInterval")}, {Actual},
                     {V20, VAbc})
    \cup SetRequests({Target_("AuthCtrlr", "AuthorizeRemoteStart")}, {Omitted}, {VTrue})
    \cup SetRequests({Target_("DeviceDataCtrlr", "ValueSize")}, {Actual}, {V4})

SizeBatchItems ==
  SetRequests({Target_("DeviceDataCtrlr", "ValueSize")}, {Actual}, {V4})
    \cup SetRequests({Target_("SampledDataCtrlr", "TxUpdatedInterval")}, {Actual}, {VAbc})

InitSize == InitWith(SizeStores)

NextSize ==
  \/ \E data \in Batches(SizeGets, {}) : GetVariables("CS1", data, NoFault, 1)
  \/ \E data \in Batches(SizeSets, SizeBatchItems) : SetVariables("CS1", data, NoFault, 1)

SpecSize == InitSize /\ [][NextSize]_vars

----------------------------------------------------------------------------
(* C4 *)

\* the value of a size key when it is set to a positive integer
PositiveSizes(cfg, variableName) ==
  LET k == cfg[KeyName(variableName, NoInstance)]
  IN  IF /\ IsSome(k)
         /\ Get(k).value # <<>>
         /\ AllDigits(Get(k).value, 1, Len(Get(k).value))
         /\ DigitsToNat(Get(k).value, 1, Len(Get(k).value)) > 0
      THEN {DigitsToNat(Get(k).value, 1, Len(Get(k).value))}
      ELSE {}

\* the least of the sizes and the absolute cap
LeastOf(sizes) ==
  CHOOSE n \in sizes \cup {OCPP_VALUE_ABSOLUTE_MAX_LENGTH} :
    \A k \in sizes \cup {OCPP_VALUE_ABSOLUTE_MAX_LENGTH} : n <= k

\* the limit on writes as the claim states it
WriteLimit(cfg) ==
  LeastOf(PositiveSizes(cfg, "ConfigurationValueSize") \cup PositiveSizes(cfg, "ValueSize"))

\* the first item of the call being made writes the Actual value of a variable
\* that is not read-only and that the earlier checks of setVariable let through
SizeCheckedWrite(d) ==
  /\ IsActual(d)
  /\ IsSome(MetadataOf(d))
  /\ Get(MetadataOf(d)).mutability # "ReadOnly"
  /\ Actual \in Get(MetadataOf(d)).supportedAttributes
  /\ \/ KeyOf(d) \notin AfterSelfCheck.invalidVariables
     \/ Get(MetadataOf(d)).mutability = "WriteOnly"

\* C4: for a write of the Actual value of a variable that is not read-only, the
\* size limit is the least of the positive integers among ConfigurationValueSize
\* and ValueSize in the store, the absolute cap when neither is one, and never
\* above the cap; a value longer than the limit is answered TooLargeElement,
\* also when it is not of the variable's data type, and a value of at most the
\* limit's length is not answered TooLargeElement.
C4_SizeLimit ==
  [][(last'.op = "setVariables" /\ SizeCheckedWrite(last'.data[1]))
     => /\ effectiveLimit(AfterSelfCheck) = WriteLimit(store["CS1"])
        /\ effectiveLimit(AfterSelfCheck) <= OCPP_VALUE_ABSOLUTE_MAX_LENGTH
        /\ Len(last'.data[1].attributeValue) > WriteLimit(store["CS1"])
             => /\ last'.results[1].attributeStatus = "Rejected"
                /\ last'.results[1].reasonCode = "TooLargeElement"
        /\ Len(last'.data[1].attributeValue) <= WriteLimit(store["CS1"])
             => last'.results[1].reasonCode # "TooLargeElement"]_vars

\* under a limit of 2 a value of 3 letters written to an integer variable was
\* rejected for its size, and the store holds both size keys
C4_Witness ==
  /\ last.op = "setVariables"
  /\ Len(last.results) = 1
  /\ last.data[1].attributeValue = VAbc
  /\ Reason(1) = "TooLargeElement"
  /\ WriteLimit(store["CS1"]) = 2
  /\ PositiveSizes(store["CS1"], "ConfigurationValueSize") = {3}

----------------------------------------------------------------------------
(* C5 *)

\* the limit on reads as the claim states it
ReadLimit(cfg) ==
  LeastOf(PositiveSizes(cfg, "ValueSize") \cup PositiveSizes(cfg, "ReportingValueSize"))

\* C5 as stated: the value of every Accepted getVariable, whatever the attribute,
\* is at most min(ValueSize, ReportingValueSize, absolute cap) long, over the
\* limits that are set and positive.
C5_EveryReadWithinLimit ==
  last.op = "getVariables" =>
    \A i \in Items :
      Status(i) = "Accepted"
        => Len(Get(last.results[i].attributeValue)) <= ReadLimit(store["CS1"])

\* C5 amended: the value of every Accepted getVariable with attribute Actual
\* (or omitted) or Target is at most min(ValueSize, ReportingValueSize, absolute
\* cap) long; a MinSet or MaxSet read returns the bound without truncation.
C5_ValueReadWithinLimit ==
  last.op = "getVariables" =>
    \A i \in Items :
      (Status(i) = "Accepted" /\ last.data[i].attributeType \in {Omitted, Actual, Target})
        => Len(Get(last.results[i].attributeValue)) <= ReadLimit(store["CS1"])

\* the default "true" of AuthorizeRemoteStart was read as "t" under
\* ReportingValueSize 1
C5_Witness ==
  /\ last.op = "getVariables"
  /\ Len(last.results) = 1
  /\ Status(1) = "Accepted"
  /\ last.data[1].variable.name = "AuthorizeRemoteStart"
  /\ last.results[1].attributeValue = Some(<<"t">>)
  /\ ReadLimit(store["CS1"]) = 1

----------------------------------------------------------------------------
(* SpecFault: calls during which a collaborator throws *)

\* the collaborator calls that may throw while an item is handled
ItemFaults == {NoFault, FaultStore, FaultRestartHeartbeat, FaultRestartWebSocketPing}

FaultGets ==
  GetRequests({Target_("AuthCtrlr", "AuthorizeRemoteStart"),
               Target_("SecurityCtrlr", "BasicAuthPassword"),
               Target_("AuthCtrlr", "NoSuchVariable")}, {Actual})

FaultGetBatchItems ==
  GetRequests({Target_("AuthCtrlr", "AuthorizeRemoteStart"),
               Target_("SecurityCtrlr", "BasicAuthPassword")}, {Actual})

FaultSets ==
  SetRequests({Target_("OCPPCommCtrlr", "HeartbeatInterval")}, {Actual}, {V30, VAbc})
    \cup SetRequests({Target_("ChargingStation", "WebSocketPingInterval")}, {Actual}, {V20})
    \cup SetRequests({Target_("AuthCtrlr", "AuthorizeRemoteStart")}, {Actual}, {VFalse})
    \cup SetRequests({Target_("SecurityCtrlr", "CertificateEntries")}, {Actual}, {V20})

FaultSetBatchItems ==
  SetRequests({Target_("OCPPCommCtrlr", "HeartbeatInterval")}, {Actual}, {V30})
    \cup SetRequests({Target_("AuthCtrlr", "AuthorizeRemoteStart")}, {Actual}, {VFalse})

InitFault == InitWith({EmptyStore})

NextFault ==
  \/ \E data \in Batches(FaultGets, FaultGetBatchItems), fault \in ItemFaults :
       GetVariables("CS1", data, fault, 1)
  \/ \E data \in Batches(FaultSets, FaultSetBatchItems), fault \in ItemFaults :
       SetVariables("CS1", data, fault, 1)
  \/ \E data \in Batches(FaultGets, FaultGetBatchItems), failAt \in FailPoints :
       GetVariables("CS1", data, FaultSelfCheck, failAt)
  \/ \E data \in Batches(FaultSets, FaultSetBatchItems), failAt \in FailPoints :
       SetVariables("CS1", data, FaultSelfCheck, failAt)

SpecFault == InitFault /\ [][NextFault]_vars

----------------------------------------------------------------------------
(* C8 *)

\* the last call was getVariables or setVariables
Called == last.op \in {"getVariables", "setVariables"}

\* C8: a getVariables or setVariables call that returns, returns one result
\* per request item in request order: the result is as long as the batch and
\* its i-th element carries the component and the variable of the i-th item,
\* whether the item was accepted, rejected or ended by an exception.
C8_OneResultPerItem ==
  (Called /\ ~last.threw) =>
    /\ Len(last.results) = Len(last.data)
    /\ \A i \in Items :
         /\ last.results[i].component = last.data[i].component
         /\ last.results[i].variable = last.data[i].variable

\* the first item of a batch of two ended by an exception, the second was accepted
C8_Witness ==
  /\ last.op = "setVariables"
  /\ Len(last.data) = 2
  /\ Len(last.results) = 2
  /\ last.data[1] # last.data[2]
  /\ Reason(1) = "InternalError"
  /\ last.results[1].additionalInfo = "Internal error occurred while setting variable"
  /\ Status(2) = "Accepted"

----------------------------------------------------------------------------
(* C9 *)

\* C9: no getVariables or setVariables call passes an exception to its caller:
\* every failure, also one of the self-check, becomes the InternalError result of
\* an item, and the call returns a result for every item.
C9_NeverThrows ==
  Called => ~last.threw /\ Len(last.results) = Len(last.data)

----------------------------------------------------------------------------
(* C10 *)

\* item i of the last setVariables call was not reported Accepted or RebootRequired
ReportedRejected(i) ==
  /\ last.op = "setVariables"
  /\ Status(i) \notin {"Accepted", "RebootRequired"}

\* C10: an item that setVariables reports with a status other than Accepted or
\* RebootRequired, also the InternalError of the catch block, left the
\* ConfigurationKey store, runtimeOverrides, minSetOverrides and maxSetOverrides
\* as they were before the item.
C10_RejectedChangesNothing ==
  \A i \in Items : ReportedRejected(i) => ~last.wrote[i]

----------------------------------------------------------------------------
(* SpecSelfCheck: the self-check on stores that hold some keys and lack others *)

\* the state after a self-check of station s; the record of the call holds the
\* manager state the self-check found
ValidatedAfter(s, checked) ==
  Commit(s, checked.m,
         Call("validatePersistentMappings", s, <<Manager(s)>>, checked.threw, <<>>, <<>>, <<>>))

\* validatePersistentMappings(chargingStation), a public method
ValidatePersistentMappings(s, fault, failAt) ==
  ValidatedAfter(s, validatePersistentMappings(Manager(s), fault, failAt))

\* the keys a station's configuration may hold at boot, with a value that is
\* not the registry's default
SelfCheckKeys ==
  {"AuthorizeRemoteStart", "HeartbeatInterval", "CertificateEntries", "ValueSize",
   "MessageAttemptInterval"}

BootValue(variableName) == IF variableName = "AuthorizeRemoteStart" THEN VFalse ELSE V20

BootStore(present) ==
  [k \in KeyNames |->
     IF k[1] \in present /\ k[2] = NoInstance
     THEN Some([value |-> BootValue(k[1]), reboot |-> FALSE]) ELSE None]

SelfCheckStores == {BootStore(present) : present \in SUBSET SelfCheckKeys}

InitSelfCheck ==
  /\ store \in [Stations -> SelfCheckStores]
  /\ store["CS2"] \in {BootStore({}), BootStore({"CertificateEntries"})}
  /\ invalidVariables = {}
  /\ runtimeOverrides = <<>>
  /\ minSetOverrides = <<>>
  /\ maxSetOverrides = <<>>
  /\ last = NoCall
  /\ StationIdle

NextSelfCheck ==
  \/ \E s \in Stations : ValidatePersistentMappings(s, NoFault, 1)
  \/ \E s \in Stations, failAt \in FailPoints :
       ValidatePersistentMappings(s, FaultSelfCheck, failAt)

SpecSelfCheck == InitSelfCheck /\ [][NextSelfCheck]_vars

----------------------------------------------------------------------------
(* C11 *)

\* the last call was a self-check that returned
SelfCheckDone == last.op = "validatePersistentMappings" /\ ~last.threw

\* the manager state the last self-check found
Before == last.data[1]

SizeControlVariables == {"ConfigurationValueSize", "ValueSize", "ReportingValueSize"}

\* a registry variable with a default whose key the last self-check found missing
DefaultMissing(V) ==
  /\ SelfChecked(V)
  /\ IsSome(V.defaultValue)
  /\ ~IsSome(Before.cfg[computeConfigurationKeyName(V)])

\* the station's store holds the key of V with the default value of V
HoldsDefault(V) ==
  /\ IsSome(store[last.station][computeConfigurationKeyName(V)])
  /\ Get(store[last.station][computeConfigurationKeyName(V)]).value = Get(V.defaultValue)

----------------------------------------------------------------------------
(* C12 *)

CompositeKeyOf(V) == buildCaseInsensitiveCompositeKey(V.component, V.instance, V.variable)

\* a registry variable without a default, other than the size-control
\* variables, whose key the last self-check found missing
NoDefaultMissing(V) ==
  /\ SelfChecked(V)
  /\ ~IsSome(V.defaultValue)
  /\ V.variable \notin SizeControlVariables
  /\ ~IsSome(Before.cfg[computeConfigurationKeyName(V)])

----------------------------------------------------------------------------
(* C15 *)

\* the manager state a second self-check of the same station would leave
Again == validatePersistentMappings(Manager(last.station), NoFault, 1).m

\* the registry variables whose key the last self-check found missing
MissingBefore ==
  {CompositeKeyOf(V) : V \in {W \in RegistryEntries :
                                 ~IsSome(Before.cfg[computeConfigurationKeyName(W)])}}

\* C15: the self-check is idempotent and non-overwriting: a second self-check
\* of the same station right after one that returned leaves the store and
\* invalidVariables as the first left them; a self-check leaves every key the
\* store held with the value it had; and invalidVariables after a self-check
\* holds only variables whose key that self-check found missing, none left from
\* an earlier run.
C15_Idempotent ==
  /\ SelfCheckDone =>
       /\ Again.cfg = store[last.station]
       /\ Again.invalidVariables = invalidVariables
  /\ last.op = "validatePersistentMappings" =>
       /\ \A k \in KeyNames : IsSome(Before.cfg[k]) => store[last.station][k] = Before.cfg[k]
       /\ invalidVariables \subseteq MissingBefore

\* a self-check of a station that holds CertificateEntries found the variable
\* marked invalid by the self-check of another station, and unmarked it
C15_Witness ==
  /\ SelfCheckDone
  /\ <<"securityctrlr", NoInstance, "certificateentries">> \in Before.invalidVariables
  /\ invalidVariables = {}
  /\ Before.cfg[KeyName("CertificateEntries", NoInstance)]
       = Some([value |-> V20, reboot |-> FALSE])
  /\ store[last.station] # Before.cfg

----------------------------------------------------------------------------
(* SpecInstance: requests that name an instance of the component or the variable *)

OtherInstance == "other"

\* a variable of the device model named with instances
InstanceTarget(componentName, componentInstance, variableName, variableInstance) ==
  [component |-> [name |-> componentName, instance |-> componentInstance],
   variable |-> [name |-> variableName, instance |-> variableInstance]]

InstanceTargets ==
  {InstanceTarget("OCPPCommCtrlr", NoInstance, "HeartbeatInterval", i) :
     i \in {NoInstance, OtherInstance}}
    \cup {InstanceTarget("OCPPCommCtrlr", OtherInstance, "HeartbeatInterval", NoInstance)}
    \cup {InstanceTarget("OCPPCommCtrlr", NoInstance, "MessageAttemptInterval", i) :
            i \in {NoInstance, "TransactionEvent", OtherInstance}}
    \cup {InstanceTarget("OCPPCommCtrlr", NoInstance, "NoSuchVariable", i) :
            i \in {NoInstance, OtherInstance}}
    \cup {InstanceTarget("EVSE", NoInstance, "HeartbeatInterval", i) :
            i \in {NoInstance, OtherInstance}}

InstanceGets == GetRequests(InstanceTargets, {Omitted, Actual, MinSet, Target})

InstanceSets == SetRequests(InstanceTargets, {Omitted, MinSet, Target}, {V20})

InitInstance == InitWith({EmptyStore})

NextInstance ==
  \/ \E data \in Batches(InstanceGets, {}) : GetVariables("CS1", data, NoFault, 1)
  \/ \E data \in Batches(InstanceSets, {}) : SetVariables("CS1", data, NoFault, 1)

SpecInstance == InitInstance /\ [][NextInstance]_vars

----------------------------------------------------------------------------
(* C13 *)

\* the registry entry the instance-specific lookup finds for a request item,
\* else the one the instance-agnostic lookup finds
FoundByEither(d) ==
  IF IsSome(getVariableMetadata(d.component.name, d.variable.name,
                                Coalesce(d.variable.instance, d.component.instance)))
  THEN getVariableMetadata(d.component.name, d.variable.name,
                           Coalesce(d.variable.instance, d.component.instance))
  ELSE getVariableMetadata(d.component.name, d.variable.name, NoInstance)

ResolvedAttribute(d) == IF d.attributeType = Omitted THEN Actual ELSE d.attributeType

\* an unsupported component is answered UnknownComponent/NotFound
UnknownComponentFirst(i) ==
  ~isComponentValid(last.data[i].component)
    => Status(i) = "UnknownComponent" /\ Reason(i) = "NotFound"

\* a variable of a supported component that neither lookup finds is answered
\* UnknownVariable/NotFound
UnknownVariableSecond(i) ==
  (isComponentValid(last.data[i].component) /\ ~IsSome(FoundByEither(last.data[i])))
    => Status(i) = "UnknownVariable" /\ Reason(i) = "NotFound"

\* a variable that either lookup finds is not answered UnknownVariable, and is
\* answered NotSupportedAttributeType only for an attribute the variable found
\* does not support
FoundNotRejectedForInstance(i) ==
  (isComponentValid(last.data[i].component) /\ IsSome(FoundByEither(last.data[i])))
    => /\ Status(i) # "UnknownVariable"
       /\ (Status(i) = "NotSupportedAttributeType" /\ Reason(i) = "UnsupportedParam"
             /\ ResolvedAttribute(last.data[i]) \notin {MinSet, MaxSet})
            => ResolvedAttribute(last.data[i])
                 \notin Get(FoundByEither(last.data[i])).supportedAttributes

\* C13: a get or set of an unsupported component is answered
\* UnknownComponent/NotFound whatever the variable; else a variable that neither
\* the instance-specific nor the instance-agnostic registry lookup finds is
\* answered UnknownVariable/NotFound; and a variable that either lookup finds is
\* never answered UnknownVariable, nor rejected for its attribute only because
\* of the instance the request named.
C13_LookupOrder ==
  Called =>
    \A i \in Items :
      /\ UnknownComponentFirst(i)
      /\ UnknownVariableSecond(i)
      /\ FoundNotRejectedForInstance(i)

----------------------------------------------------------------------------
(* SpecInvalid: reads and writes of a variable that failed the self-check *)

InvalidTargets ==
  {Target_("SecurityCtrlr", "CertificateEntries"), Target_("OCPPCommCtrlr", "HeartbeatInterval")}

InvalidGets == GetRequests(InvalidTargets, {Omitted, Actual, MinSet, MaxSet, Target})

InvalidSets ==
  SetRequests(InvalidTargets, {Omitted, Actual, MinSet}, {V20})
    \cup SetRequests({Target_("SecurityCtrlr", "BasicAuthPassword")}, {Actual}, {V20})

InvalidBatchItems ==
  SetRequests({Target_("SecurityCtrlr", "CertificateEntries")}, {Actual, MinSet}, {V20})

\* station CS1 boots without the key of CertificateEntries, station CS2 with it
InitInvalid ==
  /\ store = [s \in Stations |->
                IF s = "CS1" THEN EmptyStore
                ELSE WithKey(EmptyStore, "CertificateEntries", <<"3">>, FALSE)]
  /\ invalidVariables = {}
  /\ runtimeOverrides = <<>>
  /\ minSetOverrides = <<>>
  /\ maxSetOverrides = <<>>
  /\ last = NoCall
  /\ StationIdle

NextInvalid ==
  \/ \E s \in Stations, data \in Batches(InvalidGets, {}) : GetVariables(s, data, NoFault, 1)
  \/ \E s \in Stations, data \in Batches(InvalidSets, InvalidBatchItems) :
       SetVariables(s, data, NoFault, 1)

SpecInvalid == InitInvalid /\ [][NextInvalid]_vars

----------------------------------------------------------------------------
(* C14 *)

\* item i of the last call names, with an attribute the variable supports, a
\* variable whose composite key is in invalidVariables
OnInvalid(i) ==
  /\ KeyOf(last.data[i]) \in invalidVariables
  /\ IsSome(MetadataOf(last.data[i]))
  /\ ResolvedAttribute(last.data[i]) \in Get(MetadataOf(last.data[i])).supportedAttributes

InternalErrorResult(i) ==
  /\ Status(i) = "Rejected"
  /\ Reason(i) = "InternalError"
  /\ last.results[i].attributeValue = None

\* C14: while the composite key of a variable is in invalidVariables, a
\* getVariable of it with a supported attribute is answered
\* Rejected/InternalError, and a setVariable of its Actual value, the variable
\* not being WriteOnly, is answered Rejected/InternalError and writes neither
\* the store nor an override map.
C14_InvalidRejected ==
  (Called /\ ~last.threw) =>
    \A i \in Items :
      OnInvalid(i) =>
        /\ last.op = "getVariables" => InternalErrorResult(i)
        /\ (/\ last.op = "setVariables"
            /\ IsActual(last.data[i])
            /\ Get(MetadataOf(last.data[i])).mutability # "WriteOnly")
           => InternalErrorResult(i) /\ ~last.wrote[i]

\* a batch set the MinSet of the invalid CertificateEntries, which is accepted,
\* and then its Actual value, which is answered InternalError and writes nothing
C14_Witness ==
  /\ last.op = "setVariables"
  /\ last.station = "CS1"
  /\ Len(last.results) = 2
  /\ <<"securityctrlr", NoInstance, "certificateentries">> \in invalidVariables
  /\ KeyOf(last.data[2]) = <<"securityctrlr", NoInstance, "certificateentries">>
  /\ last.data[1].attributeType = MinSet
  /\ Status(1) = "Accepted"
  /\ last.data[2].attributeType = Actual
  /\ InternalErrorResult(2)
  /\ ~last.wrote[2]
  /\ ~IsSome(store["CS1"][KeyName("CertificateEntries", NoInstance)])

----------------------------------------------------------------------------
(* SpecReboot: writes of variables whose configuration key is flagged reboot *)

RebootTargets ==
  {Target_("ChargingStation", "WebSocketPingInterval"),
   Target_("SampledDataCtrlr", "TxUpdatedInterval"),
   Target_("AuthCtrlr", "AuthorizeRemoteStart")}

RebootSets ==
  SetRequests(RebootTargets, {Omitted, Actual}, {V20, V30, VTrue})

RebootBatchItems ==
  SetRequests({Target_("ChargingStation", "WebSocketPingInterval"),
               Target_("SampledDataCtrlr", "TxUpdatedInterval")}, {Actual}, {V20})

\* the stores a station boots with: no key, or a key flagged reboot for a
\* persistent or for a volatile variable
RebootStores ==
  {EmptyStore,
   WithKey(EmptyStore, "WebSocketPingInterval", V30, TRUE),
   WithKey(EmptyStore, "TxUpdatedInterval", V30, TRUE)}

InitReboot == InitWith(RebootStores)

NextReboot ==
  \/ \E data \in Batches(RebootSets, RebootBatchItems) : SetVariables("CS1", data, NoFault, 1)
  \/ ResetRuntimeOverrides

SpecReboot == InitReboot /\ [][NextReboot]_vars

----------------------------------------------------------------------------
(* C16 *)

\* the value a read of the variable of request item d gives before the write
EffectiveBefore(d) == resolveVariableValue(AfterSelfCheck, d.component, d.variable).value

\* the registry entry of d asks for a reboot, or its configuration key is
\* flagged reboot
RequiresReboot(d) ==
  \/ Get(MetadataOf(d)).rebootRequired
  \/ /\ IsSome(AfterSelfCheck.cfg[computeConfigurationKeyName(Get(MetadataOf(d)))])
     /\ Get(AfterSelfCheck.cfg[computeConfigurationKeyName(Get(MetadataOf(d)))]).reboot

\* the step is a setVariables call of station CS1 with the one item d, an
\* Actual write that succeeded
SucceededActual(d) ==
  /\ last'.op = "setVariables"
  /\ last'.station = "CS1"
  /\ last'.data = <<d>>
  /\ IsActual(d)
  /\ last'.results[1].attributeStatus \in {"Accepted", "RebootRequired"}

\* C16: a successful Actual setVariable returns RebootRequired exactly when the
\* variable requires a reboot (by its registry metadata or by the reboot flag of
\* its ConfigurationKey) and the new value differs from the previous effective
\* value, and Accepted in every other successful case, for Persistent and for
\* Volatile variables alike.
C16_RebootExact ==
  [][\A d \in RebootSets :
       SucceededActual(d) =>
         (last'.results[1].attributeStatus = "RebootRequired"
            <=> (RequiresReboot(d) /\ d.attributeValue # EffectiveBefore(d)))]_vars

----------------------------------------------------------------------------
(* SpecRestart: writes that restart the heartbeat or the WebSocket ping *)

RestartTargets ==
  {Target_("OCPPCommCtrlr", "HeartbeatInterval"),
   Target_("OCPPCommCtrlr", "heartbeatinterval"),
   Target_("ChargingStation", "WebSocketPingInterval"),
   Target_("SampledDataCtrlr", "TxUpdatedInterval")}

RestartSets == SetRequests(RestartTargets, {Omitted, Actual, MinSet}, {V0, V20, VDecimal})

RestartBatchItems ==
  SetRequests({Target_("OCPPCommCtrlr", "HeartbeatInterval")}, {Actual}, {V20})
    \cup SetRequests({Target_("ChargingStation", "WebSocketPingInterval")}, {Actual},
                     {V0, VDecimal})

InitRestart == InitWith({EmptyStore})

NextRestart ==
  \E data \in Batches(RestartSets, RestartBatchItems) : SetVariables("CS1", data, NoFault, 1)

SpecRestart == InitRestart /\ [][NextRestart]_vars

----------------------------------------------------------------------------
(* C17 *)

\* item i of the last setVariables call set the Actual value of the registry
\* variable called name and was not rejected
SetOf(i, name) ==
  /\ IsSome(MetadataOf(last.data[i]))
  /\ Get(MetadataOf(last.data[i])).variable = name
  /\ IsActual(last.data[i])
  /\ Status(i) \in {"Accepted", "RebootRequired"}

\* the restart item i has to trigger, if any
RestartOf(i) ==
  IF /\ SetOf(i, "HeartbeatInterval")
     /\ NumGt(convertToIntOrNaN(last.data[i].attributeValue), Num(0))
  THEN <<"restartHeartbeat">>
  ELSE IF /\ SetOf(i, "WebSocketPingInterval")
          /\ NumGe(convertToIntOrNaN(last.data[i].attributeValue), Num(0))
  THEN <<"restartWebSocketPing">>
  ELSE <<>>

\* the restarts the first n items have to trigger, in order
RECURSIVE RestartsOf(_)
RestartsOf(n) == IF n = 0 THEN <<>> ELSE RestartsOf(n - 1) \o RestartOf(n)

\* the value item i set is the one the store holds
Stored(i) ==
  /\ IsSome(store[last.station][computeConfigurationKeyName(Get(MetadataOf(last.data[i])))])
  /\ Get(store[last.station][computeConfigurationKeyName(Get(MetadataOf(last.data[i])))]).value
       = last.data[i].attributeValue

\* C17: setVariable requests restartHeartbeat exactly once for each set of
\* HeartbeatInterval that was not rejected and whose value is a positive
\* integer, and restartWebSocketPing exactly once for each set of
\* WebSocketPingInterval that was not rejected and whose value is a non-negative
\* integer, after the value was stored; a rejected set or a set of another
\* variable triggers no restart.
C17_RestartsExact ==
  (last.op = "setVariables" /\ ~last.threw) =>
    /\ last.restarts = RestartsOf(Len(last.data))
    /\ (Len(last.data) = 1 /\ last.restarts # <<>>) => Stored(1)

----------------------------------------------------------------------------
(* OCPP20ServiceUtils: the limits on the items and the bytes of a message *)

\* the length of JSON.stringify of a string of ASCII characters without escapes
JsonStringLength(s) == Len(s) + 2

\* the length of JSON.stringify of a component or a variable: {"name":"..."},
\* with "instance":"..." when it has one
JsonNamedLength(x) ==
  IF x.instance = NoInstance THEN 9 + JsonStringLength(x.name)
  ELSE 9 + JsonStringLength(x.name) + 12 + JsonStringLength(x.instance)

\* the length of JSON.stringify of a request item: {"component":...,
\* "variable":...} with the attributeType and the attributeValue it carries
JsonItemLength(d) ==
  1 + (12 + JsonNamedLength(d.component)) + (12 + JsonNamedLength(d.variable))
    + (IF d.attributeType = Omitted THEN 0 ELSE 17 + JsonStringLength(d.attributeType))
    + (IF "attributeValue" \in DOMAIN d THEN 18 + JsonStringLength(d.attributeValue) ELSE 0)
    + 1

RECURSIVE JsonItemsLength(_, _)
JsonItemsLength(data, n) ==
  IF n = 0 THEN 0
  ELSE JsonItemsLength(data, n - 1) + JsonItemLength(data[n]) + (IF n > 1 THEN 1 ELSE 0)

\* Buffer.byteLength(JSON.stringify(data), 'utf8') of an array of request items
JsonByteLength(data) == 2 + JsonItemsLength(data, Len(data))

\* the rejection the caller's buildRejected callback makes of an item and a reason
buildRejected(d, reason) == [item |-> d, info |-> reason.info, reasonCode |-> reason.reasonCode]

\* data.map(d => buildRejected(d, reason))
RejectedAll(data, reason) == [i \in 1..Len(data) |-> buildRejected(data[i], reason)]

ItemsPerMessageInfo(itemsLimit, count) ==
  "ItemsPerMessage limit " \o toString(itemsLimit) \o " exceeded ("
    \o toString(count) \o " requested)"

BytesPerMessageInfo(bytesLimit, size, kind) ==
  "BytesPerMessage limit " \o toString(bytesLimit) \o " exceeded (" \o kind \o " "
    \o toString(size) \o " bytes)"

\* mutation of enforceMessageLimits: the byte limit is checked first
enforceMessageLimits_bytesFirst(data, itemsLimit, bytesLimit) ==
  IF bytesLimit > 0 /\ JsonByteLength(data) > bytesLimit
  THEN [rejected |-> TRUE,
        results |-> RejectedAll(data,
                      [info |-> BytesPerMessageInfo(bytesLimit, JsonByteLength(data),
                                                    "estimated"),
                       reasonCode |-> "TooLargeElement"])]
  ELSE IF itemsLimit > 0 /\ Len(data) > itemsLimit
  THEN [rejected |-> TRUE,
        results |-> RejectedAll(data,
                      [info |-> ItemsPerMessageInfo(itemsLimit, Len(data)),
                       reasonCode |-> "TooManyElements"])]
  ELSE [rejected |-> FALSE, results |-> <<>>]

\* OCPP20ServiceUtils.enforceMessageLimits
enforceMessageLimits(data, itemsLimit, bytesLimit) ==
  IF itemsLimit > 0 /\ Len(data) > itemsLimit
  THEN [rejected |-> TRUE,
        results |-> RejectedAll(data,
                      [info |-> ItemsPerMessageInfo(itemsLimit, Len(data)),
                       reasonCode |-> "TooManyElements"])]
  ELSE IF bytesLimit > 0 /\ JsonByteLength(data) > bytesLimit
  THEN [rejected |-> TRUE,
        results |-> RejectedAll(data,
                      [info |-> BytesPerMessageInfo(bytesLimit, JsonByteLength(data),
                                                    "estimated"),
                       reasonCode |-> "TooLargeElement"])]
  ELSE [rejected |-> FALSE, results |-> <<>>]

\* the length of JSON.stringify of attributeStatusInfo, which a result carries
\* when it has a reason code
JsonStatusInfoLength(r) ==
  IF r.reasonCode = "-" THEN 0
  ELSE 23 + (1 + 17 + JsonStringLength(r.additionalInfo)
               + 14 + JsonStringLength(r.reasonCode) + 1)

\* the length of JSON.stringify of a result of getVariables or setVariables,
\* whose strings hold no character that JSON escapes
JsonResultLength(r) ==
  1 + (18 + JsonStringLength(r.attributeStatus)) + JsonStatusInfoLength(r)
    + (17 + JsonStringLength(r.attributeType))
    + (IF IsSome(r.attributeValue) THEN 18 + JsonStringLength(Get(r.attributeValue)) ELSE 0)
    + (13 + JsonNamedLength(r.component)) + (12 + JsonNamedLength(r.variable)) + 1

RECURSIVE JsonResultsLength(_, _)
JsonResultsLength(results, n) ==
  IF n = 0 THEN 0
  ELSE JsonResultsLength(results, n - 1) + JsonResultLength(results[n])
         + (IF n > 1 THEN 1 ELSE 0)

\* Buffer.byteLength(JSON.stringify(currentResults), 'utf8')
JsonResultsByteLength(currentResults) ==
  2 + JsonResultsLength(currentResults, Len(currentResults))

\* mutation of enforcePostCalculationBytesLimit: the results that fit are kept
\* and the rejections of the other items follow them
enforcePostCalculationBytesLimit_keepFitting(originalData, currentResults, bytesLimit) ==
  IF bytesLimit > 0 /\ JsonResultsByteLength(currentResults) > bytesLimit
  THEN <<currentResults[1]>>
         \o Tail(RejectedAll(originalData,
                    [info |-> BytesPerMessageInfo(bytesLimit,
                                JsonResultsByteLength(currentResults), "actual"),
                     reasonCode |-> "TooLargeElement"]))
  ELSE currentResults

\* OCPP20ServiceUtils.enforcePostCalculationBytesLimit
enforcePostCalculationBytesLimit(originalData, currentResults, bytesLimit) ==
  IF bytesLimit > 0 /\ JsonResultsByteLength(currentResults) > bytesLimit
  THEN RejectedAll(originalData,
         [info |-> BytesPerMessageInfo(bytesLimit, JsonResultsByteLength(currentResults),
                                       "actual"),
          reasonCode |-> "TooLargeElement"])
  ELSE currentResults

----------------------------------------------------------------------------
(* SpecLimits: the limit checks around getVariables and setVariables *)

LimitItems ==
  GetRequests({Target_("OCPPCommCtrlr", "HeartbeatInterval")}, {Omitted})
    \cup GetRequests({Target_("AuthCtrlr", "AuthorizeRemoteStart")}, {Actual})

\* the request arrays of 0..MaxBatch items
LimitData == UNION {SeqsOfLength(LimitItems, n) : n \in 0..MaxBatch}

ItemsLimits == {-1, 0, 1, 2}

\* a byte limit below every array, limits between the sizes of the arrays, and
\* one above every array
BytesLimits == {-1, 0, 1, 90, 170, 200, 1000}

\* the record of a call of enforceMessageLimits
LimitsCall(data, itemsLimit, bytesLimit, returned) ==
  [op |-> "enforceMessageLimits", data |-> data, itemsLimit |-> itemsLimit,
   bytesLimit |-> bytesLimit, rejected |-> returned.rejected, results |-> returned.results]

EnforceMessageLimits(data, itemsLimit, bytesLimit) ==
  /\ last' = LimitsCall(data, itemsLimit, bytesLimit,
                        enforceMessageLimits(data, itemsLimit, bytesLimit))
  /\ UNCHANGED <<store, invalidVariables, runtimeOverrides, minSetOverrides, maxSetOverrides>>
  /\ UNCHANGED stationVars

\* the record of a call of enforcePostCalculationBytesLimit
PostCall(originalData, currentResults, bytesLimit, returned) ==
  [op |-> "enforcePostCalculationBytesLimit", data |-> originalData,
   currentResults |-> currentResults, bytesLimit |-> bytesLimit, results |-> returned]

\* the check of the results that the last getVariables or setVariables call returned
EnforcePostCalculationBytesLimit(bytesLimit) ==
  /\ last.op \in {"getVariables", "setVariables"}
  /\ ~last.threw
  /\ last' = PostCall(last.data, last.results, bytesLimit,
                      enforcePostCalculationBytesLimit(last.data, last.results, bytesLimit))
  /\ UNCHANGED <<store, invalidVariables, runtimeOverrides, minSetOverrides, maxSetOverrides>>
  /\ UNCHANGED stationVars

\* byte limits below every result array, between their sizes, and above them
PostBytesLimits == {-1, 0, 160, 300}

LimitGets ==
  GetRequests({Target_("OCPPCommCtrlr", "HeartbeatInterval"),
               Target_("AuthCtrlr", "NoSuchVariable"),
               Target_("EVSE", "AuthorizeRemoteStart"),
               Target_("SecurityCtrlr", "BasicAuthPassword")}, {Omitted, Target})

LimitGetBatchItems ==
  GetRequests({Target_("OCPPCommCtrlr", "HeartbeatInterval"),
               Target_("AuthCtrlr", "NoSuchVariable")}, {Actual})

LimitSets ==
  SetRequests({Target_("ChargingStation", "WebSocketPingInterval"),
               Target_("SecurityCtrlr", "CertificateEntries")}, {Actual}, {V20})
    \cup SetRequests({Target_("SecurityCtrlr", "BasicAuthPassword")}, {Actual},
                     {Repeat("a", 2501)})

LimitFaults == {NoFault, FaultStore}

InitLimits == InitWith({EmptyStore, WithKey(EmptyStore, "WebSocketPingInterval", V30, TRUE)})

NextLimits ==
  \/ \E data \in LimitData, itemsLimit \in ItemsLimits, bytesLimit \in BytesLimits :
       EnforceMessageLimits(data, itemsLimit, bytesLimit)
  \/ \E data \in Batches(LimitGets, LimitGetBatchItems), fault \in LimitFaults :
       GetVariables("CS1", data, fault, 1)
  \/ \E data \in Batches(LimitSets, {}), fault \in LimitFaults :
       SetVariables("CS1", data, fault, 1)
  \/ \E bytesLimit \in PostBytesLimits : EnforcePostCalculationBytesLimit(bytesLimit)

SpecLimits == InitLimits /\ [][NextLimits]_vars

----------------------------------------------------------------------------
(* C18 *)

LimitsChecked == last.op = "enforceMessageLimits"

\* one rejection per item of data, in the order of data, all with the reason code
RejectedInOrder(results, data, reasonCode) ==
  /\ Len(results) = Len(data)
  /\ \A i \in 1..Len(data) :
       /\ DOMAIN results[i] = {"item", "info", "reasonCode"}
       /\ results[i].item = data[i]
       /\ results[i].reasonCode = reasonCode

TooMany == last.itemsLimit > 0 /\ Len(last.data) > last.itemsLimit

TooLarge == last.bytesLimit > 0 /\ JsonByteLength(last.data) > last.bytesLimit

\* C18: enforceMessageLimits is all-or-nothing: it returns rejected=false with
\* no results, or rejected=true with one rejection per request item in request
\* order; the reason is TooManyElements when itemsLimit > 0 and the item count
\* exceeds it, also when the byte limit is exceeded too, else TooLargeElement
\* when bytesLimit > 0 and the serialized size exceeds it; a limit <= 0 disables
\* its check.
C18_AllOrNothing ==
  LimitsChecked =>
    /\ TooMany => last.rejected /\ RejectedInOrder(last.results, last.data, "TooManyElements")
    /\ (~TooMany /\ TooLarge)
         => last.rejected /\ RejectedInOrder(last.results, last.data, "TooLargeElement")
    /\ (~TooMany /\ ~TooLarge) => ~last.rejected /\ last.results = <<>>

\* two items exceed the item limit 1 and the byte limit 90: both are rejected
\* TooManyElements
C18_Witness ==
  /\ LimitsChecked
  /\ Len(last.data) = 2
  /\ last.itemsLimit = 1
  /\ last.bytesLimit = 90
  /\ JsonByteLength(last.data) > 90
  /\ last.rejected
  /\ Len(last.results) = 2
  /\ last.results[2].item = last.data[2]
  /\ last.results[1].reasonCode = "TooManyElements"
  /\ last.results[1].info = "ItemsPerMessage limit 1 exceeded (2 requested)"

----------------------------------------------------------------------------
(* C19 *)

PostChecked == last.op = "enforcePostCalculationBytesLimit"

PostTooLarge ==
  last.bytesLimit > 0 /\ JsonResultsByteLength(last.currentResults) > last.bytesLimit

\* C19: enforcePostCalculationBytesLimit returns the computed results unchanged
\* unless bytesLimit > 0 and the serialized size of the results exceeds
\* bytesLimit; then it returns one TooLargeElement rejection for every original
\* request item, in request order, and none of the computed results, never a
\* mix of the two.
C19_ResultsOrRejections ==
  PostChecked =>
    /\ PostTooLarge => RejectedInOrder(last.results, last.data, "TooLargeElement")
    /\ ~PostTooLarge => last.results = last.currentResults

\* the results of a batch of two reads, one accepted and one rejected, are
\* larger than the limit 300: both items are rejected TooLargeElement
C19_Witness ==
  /\ PostChecked
  /\ last.bytesLimit = 300
  /\ Len(last.data) = 2
  /\ last.currentResults[1].attributeStatus = "Accepted"
  /\ last.currentResults[2].attributeStatus = "UnknownVariable"
  /\ JsonResultsByteLength(last.currentResults) > 300
  /\ Len(last.results) = 2
  /\ last.results[1].item = last.data[1]
  /\ last.results[2].reasonCode = "TooLargeElement"

----------------------------------------------------------------------------
(* C20 *)

\* the results of the last getVariables or setVariables call that are not
\* Accepted carry an additionalInfo of at most 50 characters
ItemInfosShort ==
  Called => \A i \in Items : Status(i) # "Accepted" => Len(last.results[i].additionalInfo) <= 50

\* the reasons the last limit check handed to buildRejected carry an info of at
\* most 50 characters
LimitInfosShort ==
  (LimitsChecked \/ (PostChecked /\ PostTooLarge))
    => \A i \in 1..Len(last.results) : Len(last.results[i].info) <= 50

\* C20: every rejection of a get or set item carries an additionalInfo of at
\* most 50 characters: the rejections built by rejectGet and rejectSet, the
\* InternalError results of the catch blocks of getVariables and setVariables,
\* the RebootRequired info, and the ItemsPerMessage and BytesPerMessage reasons
\* handed to the buildRejected callback.
C20_InfoAtMost50 == ItemInfosShort /\ LimitInfosShort

----------------------------------------------------------------------------
(* SpecShared: station CS1 stores overrides, station CS2 reads and writes *)

SharedOverrideSets ==
  SetRequests({Target_("OCPPCommCtrlr", "HeartbeatInterval")}, {MinSet, MaxSet}, {V20, V30})
    \cup SetRequests({Target_("SampledDataCtrlr", "TxUpdatedInterval")}, {Actual}, {V20})

SharedTargets ==
  {Target_("OCPPCommCtrlr", "HeartbeatInterval"),
   Target_("SampledDataCtrlr", "TxUpdatedInterval")}

SharedGets ==
  GetRequests({Target_("OCPPCommCtrlr", "HeartbeatInterval")}, {Actual, MinSet, MaxSet})
    \cup GetRequests({Target_("SampledDataCtrlr", "TxUpdatedInterval")}, {Actual})

SharedActualSets ==
  SetRequests({Target_("OCPPCommCtrlr", "HeartbeatInterval")}, {Actual}, {V2, V20, V30, V86401})

InitShared == InitWith({EmptyStore})

NextShared ==
  \/ \E data \in Batches(SharedOverrideSets, {}) : SetVariables("CS1", data, NoFault, 1)
  \/ \E data \in Batches(SharedGets, {}) : GetVariables("CS2", data, NoFault, 1)
  \/ \E data \in Batches(SharedActualSets, {}) : SetVariables("CS2", data, NoFault, 1)

SpecShared == InitShared /\ [][NextShared]_vars

----------------------------------------------------------------------------
(* C21 *)

\* the map of overrides a read of the bound attributeType looks into
BoundOverrides(attributeType) ==
  IF attributeType = MinSet THEN minSetOverrides ELSE maxSetOverrides

\* station CS2 reads a bound that has an override: the answer carries the override
SharedBoundRead(d, r) ==
  (d.attributeType \in {MinSet, MaxSet} /\ KeyOf(d) \in DOMAIN BoundOverrides(d.attributeType))
  => /\ r.attributeStatus = "Accepted"
     /\ r.attributeValue = Some(BoundOverrides(d.attributeType)[KeyOf(d)])

\* station CS2 reads a volatile variable that has a runtime override
SharedRuntimeRead(d, r) ==
  (/\ d.attributeType = Actual
   /\ d.variable.name = "TxUpdatedInterval"
   /\ KeyOf(d) \in DOMAIN runtimeOverrides)
  => /\ r.attributeStatus = "Accepted"
     /\ r.attributeValue = Some(runtimeOverrides[KeyOf(d)])

\* station CS2 writes an integer below the MinSet override or above the MaxSet override
SharedBoundEnforced(d, r) ==
  /\ (/\ KeyOf(d) \in DOMAIN minSetOverrides
      /\ convertToIntOrNaN(d.attributeValue).n >= 1
      /\ NumLt(convertToIntOrNaN(d.attributeValue),
               convertToIntOrNaN(minSetOverrides[KeyOf(d)])))
     => r.attributeStatus = "Rejected" /\ r.reasonCode = "ValueTooLow"
  /\ (/\ KeyOf(d) \in DOMAIN maxSetOverrides
      /\ convertToIntOrNaN(d.attributeValue).n <= 86400
      /\ ~(KeyOf(d) \in DOMAIN minSetOverrides
           /\ NumLt(convertToIntOrNaN(d.attributeValue),
                    convertToIntOrNaN(minSetOverrides[KeyOf(d)])))
      /\ NumGt(convertToIntOrNaN(d.attributeValue),
               convertToIntOrNaN(maxSetOverrides[KeyOf(d)])))
     => r.attributeStatus = "Rejected" /\ r.reasonCode = "ValueTooHigh"

\* C21: the overrides are shared by the stations of the process.  Every MinSet,
\* MaxSet and runtime override in the state was stored by a setVariables call for
\* station CS1; a getVariables call for station CS2 returns it, a setVariables
\* call for station CS2 enforces it on Actual writes, and a call for one
\* station leaves the ConfigurationKey store of the other station as it was.
C21_SharedOverrides ==
  [][/\ (last'.op = "getVariables" /\ last'.station = "CS2")
        => /\ SharedBoundRead(last'.data[1], last'.results[1])
           /\ SharedRuntimeRead(last'.data[1], last'.results[1])
     /\ (last'.op = "setVariables" /\ last'.station = "CS2")
        => SharedBoundEnforced(last'.data[1], last'.results[1])
     /\ \A s \in Stations : last'.station # s => store'[s] = store[s]]_vars

\* station CS2 read the MinSet override 30 of HeartbeatInterval, stored for CS1
C21_Witness ==
  /\ last.op = "getVariables"
  /\ last.station = "CS2"
  /\ last.data[1].attributeType = MinSet
  /\ last.results[1].attributeValue = Some(V30)
  /\ KeyOf(last.data[1]) \in DOMAIN minSetOverrides
  /\ store["CS1"] # store["CS2"]

----------------------------------------------------------------------------
(* C22 *)

\* the registry variables the self-check marks invalid on the store cfg
FailsSelfCheck(cfg, V) ==
  /\ SelfChecked(V)
  /\ ~IsSome(getConfigurationKey(cfg, computeConfigurationKeyName(V)))
  /\ V.variable \notin SizeControlVariables
  /\ V.instance = NoInstance
  /\ ~IsSome(V.defaultValue)

InvalidAtStart(cfg) == {CompositeKeyOf(V) : V \in {W \in RegistryEntries : FailsSelfCheck(cfg, W)}}

\* the answer r to the read d of the Actual value of CertificateEntries tells
\* whether the store cfg held the key when the call began
AnsweredFromStart(cfg, d, r) ==
  (d.variable.name = "CertificateEntries" /\ IsActual(d))
  => (r.reasonCode = "InternalError"
        <=> ~IsSome(getConfigurationKey(cfg, KeyName("CertificateEntries", NoInstance))))

\* C22: every getVariables and setVariables call runs the self-check for its
\* station first: invalidVariables after the call, and as the items of the call
\* see it, is the set computed from the station's store as the call found it,
\* whatever invalidVariables held before the call.
C22_SelfCheckPerCall ==
  [][(last'.op \in {"getVariables", "setVariables"} /\ ~last'.threw)
     => /\ invalidVariables' = InvalidAtStart(store[last'.station])
        /\ last'.op = "getVariables"
           => \A i \in 1..Len(last'.data) :
                AnsweredFromStart(store[last'.station], last'.data[i], last'.results[i])]_vars

\* after a call for station CS1 marked CertificateEntries invalid, a call for
\* station CS2, whose store holds the key, read the value
C22_Witness ==
  /\ last.op = "getVariables"
  /\ last.station = "CS2"
  /\ last.data[1].variable.name = "CertificateEntries"
  /\ IsActual(last.data[1])
  /\ last.results[1].attributeValue = Some(<<"3">>)
  /\ invalidVariables = {}
  /\ IsSome(store["CS1"][KeyName("HeartbeatInterval", NoInstance)])
  /\ ~IsSome(store["CS1"][KeyName("CertificateEntries", NoInstance)])

----------------------------------------------------------------------------
(* SpecRoundTrip: a value is written, then read *)

V1 == <<"1">>

\* MessageAttemptInterval, named with its instance
RoundTripInstanceTarget ==
  [component |-> Component("OCPPCommCtrlr"),
   variable |-> [name |-> "MessageAttemptInterval", instance |-> "TransactionEvent"]]

RoundTripTargets ==
  {Target_("OCPPCommCtrlr", "HeartbeatInterval"),
   Target_("ChargingStation", "WebSocketPingInterval"),
   Target_("SampledDataCtrlr", "TxUpdatedInterval"),
   Target_("AuthCtrlr", "AuthorizeRemoteStart"),
   RoundTripInstanceTarget}

RoundTripGets == GetRequests(RoundTripTargets, {Actual})

RoundTripSets ==
  SetRequests(RoundTripTargets, {Actual}, {V20, VFalse})
    \cup SetRequests({Target_("DeviceDataCtrlr", "ValueSize")}, {Actual}, {V1})

\* a station boots with an empty store, or holding keys without a value
RoundTripStores ==
  {EmptyStore,
   WithKey(WithKey(EmptyStore, "HeartbeatInterval", <<>>, FALSE),
           "WebSocketPingInterval", <<>>, FALSE)}

InitRoundTrip == InitWith(RoundTripStores)

NextRoundTrip ==
  \/ \E data \in Batches(RoundTripGets, {}) : GetVariables("CS1", data, NoFault, 1)
  \/ \E data \in Batches(RoundTripSets, {}) : SetVariables("CS1", data, NoFault, 1)
  \/ ResetRuntimeOverrides

SpecRoundTrip == InitRoundTrip /\ [][NextRoundTrip]_vars

----------------------------------------------------------------------------
(* C23 *)

\* the last call wrote the Actual value of a readable variable and was answered
\* Accepted or RebootRequired
WroteReadable ==
  /\ last.op = "setVariables"
  /\ Len(last.results) = 1
  /\ IsActual(last.data[1])
  /\ Status(1) \in {"Accepted", "RebootRequired"}
  /\ Get(MetadataOf(last.data[1])).mutability # "WriteOnly"

\* the request d reads the Actual value of the variable the request w names
ReadsBack(d, w) ==
  /\ IsActual(d)
  /\ d.component = w.component
  /\ d.variable = w.variable

\* where the written value is kept: the station's store for a persistent
\* variable, runtimeOverrides for a volatile one
KeptWhereWritten(w) ==
  IF Get(MetadataOf(w)).persistence = "Persistent"
  THEN /\ IsSome(store[last.station][computeConfigurationKeyName(Get(MetadataOf(w)))])
       /\ Get(store[last.station][computeConfigurationKeyName(Get(MetadataOf(w)))]).value
            = w.attributeValue
  ELSE /\ KeyOf(w) \in DOMAIN runtimeOverrides
       /\ runtimeOverrides[KeyOf(w)] = w.attributeValue

\* the size limits a read of station s applies, in the state after the read
ReadLimits(s) == [cfg |-> store[s], invalidVariables |-> invalidVariables]

----------------------------------------------------------------------------
(* C24 *)

\* the first non-empty string of the sequence sources, else the empty string
RECURSIVE FirstNonEmpty(_)
FirstNonEmpty(sources) ==
  IF sources = <<>> THEN <<>>
  ELSE IF Head(sources) # <<>> THEN Head(sources)
  ELSE FirstNonEmpty(Tail(sources))

HookSource(V) == IF IsSome(resolveHook(V)) THEN Get(resolveHook(V)) ELSE <<>>

\* the value of the variable's key in the store of the station of the last call
StoreSource(V) ==
  IF ResolveReadsStore(V) /\ IsSome(store[last.station][computeConfigurationKeyName(V)])
  THEN Get(store[last.station][computeConfigurationKeyName(V)]).value
  ELSE <<>>

OverrideSource(V, d) ==
  IF V.persistence = "Volatile" /\ V.mutability # "ReadOnly" /\ KeyOf(d) \in DOMAIN runtimeOverrides
  THEN runtimeOverrides[KeyOf(d)]
  ELSE <<>>

LiveSource(V) ==
  CASE V.variable = "HeartbeatInterval" -> StationHeartbeatInterval
    [] V.variable = "WebSocketPingInterval" -> StationWebSocketPingInterval
    [] V.variable = "TxUpdatedInterval" -> IntToString(DEFAULT_TX_UPDATED_INTERVAL)
    [] OTHER -> <<>>

\* the last call read the Actual value of one variable and was answered Accepted
ReadAccepted ==
  /\ last.op = "getVariables"
  /\ Len(last.results) = 1
  /\ IsActual(last.data[1])
  /\ Status(1) = "Accepted"

\* C24: the value an accepted read returns is the first non-empty string among
\* the output of the resolve hook, the value of the key in the station's store
\* (Persistent variable), the runtime override (Volatile variable) and the live
\* fallback, in this order, with postProcess applied and cut to the read-size
\* limits.
C24_FirstNonEmptySource ==
  ReadAccepted =>
    last.results[1].attributeValue
      = Some(truncateForRead(ReadLimits(last.station),
               applyPostProcess(Get(MetadataOf(last.data[1])),
                 FirstNonEmpty(<<HookSource(Get(MetadataOf(last.data[1]))),
                                 StoreSource(Get(MetadataOf(last.data[1]))),
                                 OverrideSource(Get(MetadataOf(last.data[1])), last.data[1]),
                                 LiveSource(Get(MetadataOf(last.data[1])))>>))))

----------------------------------------------------------------------------
(* C25 *)

\* the registry entries kept under the configuration key name k
EntriesOfKey(k) == {V \in RegistryEntries : computeConfigurationKeyName(V) = k}

\* a read may insert the key k: it is the key of an entry that has a default
\* value and no instance
InsertedByRead(k) ==
  \E V \in EntriesOfKey(k) : IsSome(V.defaultValue) /\ V.instance = NoInstance

\* C25: a getVariables call inserts a missing key into the station's store only
\* when the key's variable has a default value and is not instance-scoped; a
\* read of an instance-scoped Persistent variable whose key is absent returns
\* the default and leaves the key absent.
C25_LazyMaterialization ==
  [][last'.op = "getVariables"
     => \A k \in KeyNames :
          (~IsSome(store[last'.station][k]) /\ IsSome(store'[last'.station][k]))
          => InsertedByRead(k)]_vars

----------------------------------------------------------------------------
(* SpecBoundUse: bounds are written, read, and enforced on the Actual value *)

BoundUseTargets ==
  {Target_("OCPPCommCtrlr", "HeartbeatInterval"), Target_("SecurityCtrlr", "CertificateEntries")}

BoundUseGets == GetRequests(BoundUseTargets, {Actual, MinSet, MaxSet})

BoundUseSets ==
  SetRequests({Target_("OCPPCommCtrlr", "HeartbeatInterval")}, {MinSet, MaxSet},
              {V0, V20, V30, VDecimal, VAbc, V86401})
    \cup SetRequests({Target_("OCPPCommCtrlr", "HeartbeatInterval")}, {Actual},
                     {V0, V2, V20, V30, VAbc})
    \cup SetRequests({Target_("SecurityCtrlr", "CertificateEntries")},
                     {Actual, MinSet, MaxSet}, {V20})

\* the station boots with the key of the read-only CertificateEntries
InitBoundUse ==
  /\ store = [s \in Stations |->
                IF s = "CS1" THEN WithKey(EmptyStore, "CertificateEntries", <<"3">>, FALSE)
                ELSE EmptyStore]
  /\ invalidVariables = {}
  /\ runtimeOverrides = <<>>
  /\ minSetOverrides = <<>>
  /\ maxSetOverrides = <<>>
  /\ last = NoCall
  /\ StationIdle

NextBoundUse ==
  \/ \E data \in Batches(BoundUseGets, {}) : GetVariables("CS1", data, NoFault, 1)
  \/ \E data \in Batches(BoundUseSets, {}) : SetVariables("CS1", data, NoFault, 1)

SpecBoundUse == InitBoundUse /\ [][NextBoundUse]_vars

----------------------------------------------------------------------------
(* C26 *)

\* the registry's static bound of the entry V for the attribute MinSet or MaxSet
StaticBound(V, attributeType) == IF attributeType = MinSet THEN V.min ELSE V.max

\* the call recorded in call wrote one bound, with the attribute attributeType
BoundWritten(call, attributeType) ==
  /\ call.op = "setVariables"
  /\ Len(call.results) = 1
  /\ call.data[1].attributeType = attributeType

\* the map of overrides holds what the setVariable calls accepted: an accepted
\* write of the bound stores its value, and nothing else changes the map
TracksAccepted(overrides, overridesAfter, call, attributeType) ==
  IF BoundWritten(call, attributeType) /\ call.results[1].attributeStatus = "Accepted"
  THEN overridesAfter = MapSet(overrides, KeyOf(call.data[1]), call.data[1].attributeValue)
  ELSE overridesAfter = overrides

\* the answer r to a read d of a bound, given the overrides in the state
BoundAnswered(d, r, V) ==
  IF KeyOf(d) \in DOMAIN BoundOverrides(d.attributeType)
  THEN /\ r.attributeStatus = "Accepted"
       /\ r.attributeValue = Some(BoundOverrides(d.attributeType)[KeyOf(d)])
  ELSE IF IsSome(StaticBound(V, d.attributeType))
  THEN /\ r.attributeStatus = "Accepted"
       /\ r.attributeValue = Some(IntToString(Get(StaticBound(V, d.attributeType))))
  ELSE /\ r.attributeStatus = "NotSupportedAttributeType"
       /\ r.reasonCode = "UnsupportedParam"

\* the read d of the call that ends in the next state reads a bound of a
\* variable that supports it and is not invalid
ReadsBound(d) ==
  /\ d.attributeType \in {MinSet, MaxSet}
  /\ IsSome(MetadataOf(d))
  /\ d.attributeType \in Get(MetadataOf(d)).supportedAttributes
  /\ KeyOf(d) \notin invalidVariables'

\* C26: minSetOverrides and maxSetOverrides hold, per key, the value of the
\* bound write most recently accepted, and an override is never removed; a
\* getVariable of MinSet or MaxSet of a variable that supports the attribute and
\* is not invalid answers Accepted with the override when the key has one, else
\* Accepted with the registry's static bound as a decimal string, else
\* NotSupportedAttributeType/UnsupportedParam.
C26_BoundRead ==
  [][/\ TracksAccepted(minSetOverrides, minSetOverrides', last', MinSet)
     /\ TracksAccepted(maxSetOverrides, maxSetOverrides', last', MaxSet)
     /\ (last'.op = "getVariables" /\ ReadsBound(last'.data[1]))
        => BoundAnswered(last'.data[1], last'.results[1], Get(MetadataOf(last'.data[1])))]_vars

\* the MinSet override "20" of HeartbeatInterval is read, not the static bound 1
C26_Witness ==
  /\ last.op = "getVariables"
  /\ last.data[1].variable.name = "HeartbeatInterval"
  /\ last.data[1].attributeType = MinSet
  /\ KeyOf(last.data[1]) \in DOMAIN minSetOverrides
  /\ minSetOverrides[KeyOf(last.data[1])] = V20
  /\ last.results[1].attributeValue = Some(V20)
  /\ Get(MetadataOf(last.data[1])).min = Some(1)

----------------------------------------------------------------------------
(* C27 *)

\* the call that ends in the next state writes the Actual value, an integer,
\* of the integer variable HeartbeatInterval
WritesInteger(d) ==
  /\ last'.op = "setVariables"
  /\ IsActual(d)
  /\ d.variable.name = "HeartbeatInterval"
  /\ MatchesSignedInteger(d.attributeValue)

\* the integer value n is below the MinSet override of key k
BelowMinSet(n, k) ==
  k \in DOMAIN minSetOverrides /\ NumLt(n, convertToIntOrNaN(minSetOverrides[k]))

\* the integer value n is above the MaxSet override of key k
AboveMaxSet(n, k) ==
  k \in DOMAIN maxSetOverrides /\ NumGt(n, convertToIntOrNaN(maxSetOverrides[k]))

\* C27: once a MinSet override m (a MaxSet override M) is in force for an
\* integer variable, an Actual setVariable of an integer below m is answered
\* Rejected/ValueTooLow (above M: Rejected/ValueTooHigh) and leaves the store as
\* it was, and an integer that passes the validator and lies within the
\* overrides is accepted and stored.
C27_OverridesEnforced ==
  [][WritesInteger(last'.data[1])
     => /\ BelowMinSet(convertToIntOrNaN(last'.data[1].attributeValue), KeyOf(last'.data[1]))
           => /\ last'.results[1].attributeStatus = "Rejected"
              /\ last'.results[1].reasonCode = "ValueTooLow"
              /\ ~last'.wrote[1]
        /\ (/\ AboveMaxSet(convertToIntOrNaN(last'.data[1].attributeValue), KeyOf(last'.data[1]))
            /\ ~BelowMinSet(convertToIntOrNaN(last'.data[1].attributeValue),
                            KeyOf(last'.data[1])))
           => /\ last'.results[1].attributeStatus = "Rejected"
              /\ last'.results[1].reasonCode = "ValueTooHigh"
              /\ ~last'.wrote[1]
        /\ (/\ validateValue(Get(MetadataOf(last'.data[1])), last'.data[1].attributeValue).ok
            /\ ~BelowMinSet(convertToIntOrNaN(last'.data[1].attributeValue),
                            KeyOf(last'.data[1]))
            /\ ~AboveMaxSet(convertToIntOrNaN(last'.data[1].attributeValue),
                            KeyOf(last'.data[1])))
           => /\ last'.results[1].attributeStatus = "Accepted"
              /\ Get(store'["CS1"][KeyName("HeartbeatInterval", NoInstance)]).value
                   = last'.data[1].attributeValue]_vars

\* with the MinSet override 20 in force, the write of 2 to HeartbeatInterval,
\* which the registry's minimum 1 allows, was rejected and the store kept "60"
C27_Witness ==
  /\ last.op = "setVariables"
  /\ IsActual(last.data[1])
  /\ last.data[1].variable.name = "HeartbeatInterval"
  /\ last.data[1].attributeValue = V2
  /\ KeyOf(last.data[1]) \in DOMAIN minSetOverrides
  /\ minSetOverrides[KeyOf(last.data[1])] = V20
  /\ Reason(1) = "ValueTooLow"
  /\ last.results[1].additionalInfo = "Value below MinSet override"
  /\ Get(store["CS1"][KeyName("HeartbeatInterval", NoInstance)]).value = <<"6", "0">>

----------------------------------------------------------------------------
(* C28 *)

\* the request d writes a bound of a variable that supports the attribute
WritesBound(d) ==
  /\ last'.op = "setVariables"
  /\ d.attributeType \in {MinSet, MaxSet}
  /\ IsSome(MetadataOf(d))
  /\ d.attributeType \in Get(MetadataOf(d)).supportedAttributes

\* the integer n lies on the wrong side of the other bound in force
CrossesOtherBound(d, n, V) ==
  IF d.attributeType = MinSet
  THEN /\ IsSome(EffectiveBound(maxSetOverrides, KeyOf(d), V.max))
       /\ NumGt(n, Get(EffectiveBound(maxSetOverrides, KeyOf(d), V.max)))
  ELSE /\ IsSome(EffectiveBound(minSetOverrides, KeyOf(d), V.min))
       /\ NumLt(n, Get(EffectiveBound(minSetOverrides, KeyOf(d), V.min)))

\* the answer r is Rejected with the reason code and the info given
RejectedWith(r, reasonCode, info) ==
  /\ r.attributeStatus = "Rejected"
  /\ r.reasonCode = reasonCode
  /\ r.additionalInfo = info

\* what a bound write d of the value n to the entry V is answered
BoundWriteAnswered(d, r, n, V) ==
  IF V.dataType # "integer"
  THEN RejectedWith(r, "InvalidValue", "MinSet/MaxSet only valid for integer data type")
  ELSE IF MatchesSignedDecimal(d.attributeValue)
  THEN RejectedWith(r, "InvalidValue", "Integer must not be decimal")
  ELSE IF ~MatchesSignedInteger(d.attributeValue)
  THEN RejectedWith(r, "InvalidValue", "Integer required for MinSet/MaxSet")
  ELSE IF IsSome(V.min) /\ n.n < Get(V.min)
  THEN r.attributeStatus = "Rejected" /\ r.reasonCode = "ValueTooLow"
  ELSE IF IsSome(V.max) /\ n.n > Get(V.max)
  THEN r.attributeStatus = "Rejected" /\ r.reasonCode = "ValueTooHigh"
  ELSE IF CrossesOtherBound(d, n, V)
  THEN RejectedWith(r, "InvalidValue",
                    IF d.attributeType = MinSet THEN "MinSet higher than MaxSet"
                    ELSE "MaxSet lower than MinSet")
  ELSE r.attributeStatus = "Accepted"

----------------------------------------------------------------------------
(* C29 *)

\* what getVariables answers to the request d when the station's store is cfg
\* and the override maps are as given
ReadWith(cfg, overrides, minSet, maxSet, d) ==
  getVariable(validatePersistentMappings(
                [cfg |-> cfg, invalidVariables |-> {}, runtimeOverrides |-> overrides,
                 minSetOverrides |-> minSet, maxSetOverrides |-> maxSet, restarts |-> <<>>],
                NoFault, 1).m,
              d, NoFault).res

\* what getVariables answers to the request d in the current state
ReadNow(s, d) == ReadWith(store[s], runtimeOverrides, minSetOverrides, maxSetOverrides, d)

\* the read of the Actual value of the variable the request d names
ActualOf(d) == [component |-> d.component, variable |-> d.variable, attributeType |-> Actual]

\* the request d writes a valid bound of a read-only integer variable: an
\* integer within the registry's bounds and not beyond the other bound in force
WritesBoundOfReadOnly(d) ==
  /\ WritesBound(d)
  /\ Get(MetadataOf(d)).mutability = "ReadOnly"
  /\ Get(MetadataOf(d)).dataType = "integer"
  /\ MatchesSignedInteger(d.attributeValue)
  /\ validateValue(Get(MetadataOf(d)), d.attributeValue).ok
  /\ ~CrossesOtherBound(d, convertToIntOrNaN(d.attributeValue), Get(MetadataOf(d)))

\* C29: a valid setVariable of MinSet or MaxSet on a read-only integer variable
\* that supports the attribute is answered Accepted and stores the override
\* under the variable's composite key, and what getVariable answers for the
\* Actual value of the variable is the same before and after.
C29_ReadOnlyBoundWrite ==
  [][WritesBoundOfReadOnly(last'.data[1])
     => /\ last'.results[1].attributeStatus = "Accepted"
        /\ TracksAccepted(minSetOverrides, minSetOverrides', last', MinSet)
        /\ TracksAccepted(maxSetOverrides, maxSetOverrides', last', MaxSet)
        /\ (IF last'.data[1].attributeType = MinSet THEN minSetOverrides'
            ELSE maxSetOverrides')[KeyOf(last'.data[1])] = last'.data[1].attributeValue
        /\ ReadWith(store'[last'.station], runtimeOverrides', minSetOverrides',
                    maxSetOverrides', ActualOf(last'.data[1]))
             = ReadWith(store[last'.station], runtimeOverrides, minSetOverrides,
                        maxSetOverrides, ActualOf(last'.data[1]))]_vars

\* the MinSet override 20 of the read-only CertificateEntries was accepted; its
\* Actual value is read "3" as before
C29_Witness ==
  /\ last.op = "setVariables"
  /\ last.data[1].variable.name = "CertificateEntries"
  /\ last.data[1].attributeType = MinSet
  /\ Status(1) = "Accepted"
  /\ minSetOverrides[KeyOf(last.data[1])] = V20
  /\ ReadNow("CS1", ActualOf(last.data[1])).attributeValue = Some(<<"3">>)

----------------------------------------------------------------------------
(* SpecEmpty: reads of variables whose resolved value is empty *)

EmptyTargets ==
  {Target_("SampledDataCtrlr", "TxEndedInterval"),
   Target_("SampledDataCtrlr", "TxUpdatedInterval"),
   Target_("SecurityCtrlr", "CertificateEntries"),
   Target_("TxCtrlr", "EVConnectionTimeOut"),
   Target_("OCPPCommCtrlr", "HeartbeatInterval")}

EmptyGets == GetRequests(EmptyTargets, {Omitted, Actual, Target, MinSet})

EmptyGetBatchItems ==
  GetRequests({Target_("SampledDataCtrlr", "TxEndedInterval"),
               Target_("SecurityCtrlr", "CertificateEntries")}, {Actual, Target})

EmptySets ==
  SetRequests({Target_("SampledDataCtrlr", "TxEndedInterval")}, {Actual, Target}, {V20})
    \cup SetRequests({Target_("DeviceDataCtrlr", "ValueSize"),
                      Target_("DeviceDataCtrlr", "ReportingValueSize")}, {Actual}, {V1})

\* station CS1 boots with keys that hold no value, station CS2 with none
InitEmpty ==
  /\ store = [s \in Stations |->
                IF s = "CS1"
                THEN WithKey(WithKey(EmptyStore, "CertificateEntries", <<>>, FALSE),
                             "EVConnectionTimeOut", <<>>, FALSE)
                ELSE EmptyStore]
  /\ invalidVariables = {}
  /\ runtimeOverrides = <<>>
  /\ minSetOverrides = <<>>
  /\ maxSetOverrides = <<>>
  /\ last = NoCall
  /\ StationIdle

NextEmpty ==
  \/ \E s \in Stations, data \in Batches(EmptyGets, EmptyGetBatchItems) :
       GetVariables(s, data, NoFault, 1)
  \/ \E data \in Batches(EmptySets, {}) : SetVariables("CS1", data, NoFault, 1)
  \/ ResetRuntimeOverrides

SpecEmpty == InitEmpty /\ [][NextEmpty]_vars

----------------------------------------------------------------------------
(* C30 *)

\* item i of the last getVariables call got as far as resolving the value: the
\* attribute is Actual or Target, the variable supports it, is readable and is
\* not invalid
Resolves(i) ==
  /\ IsSome(MetadataOf(last.data[i]))
  /\ ResolvedAttribute(last.data[i]) \in {Actual, Target}
  /\ ResolvedAttribute(last.data[i]) \in Get(MetadataOf(last.data[i])).supportedAttributes
  /\ ~(Get(MetadataOf(last.data[i])).mutability = "WriteOnly"
       /\ ResolvedAttribute(last.data[i]) = Actual)
  /\ KeyOf(last.data[i]) \notin invalidVariables

\* the value resolveVariableValue yields for item i
ResolvedValue(i) ==
  resolveVariableValue(Manager(last.station), last.data[i].component,
                       last.data[i].variable).value

\* item i reads the Target of a variable with supportsTarget
ReadsSupportedTarget(i) ==
  /\ last.data[i].attributeType = Target
  /\ IsSome(MetadataOf(last.data[i]))
  /\ Get(MetadataOf(last.data[i])).supportsTarget

\* C30: a getVariable that is answered Accepted carries an empty attributeValue
\* only for the attribute Target of a variable with supportsTarget; when the
\* resolved value is empty, a read of the Target of a variable with
\* supportsTarget is answered Accepted with the empty string and every other
\* read Rejected/InvalidValue.
C30_EmptyValue ==
  last.op = "getVariables" =>
    \A i \in Items :
      /\ (Status(i) = "Accepted" /\ last.results[i].attributeValue = Some(<<>>))
         => ReadsSupportedTarget(i)
      /\ Status(i) = "Accepted" => IsSome(last.results[i].attributeValue)
      /\ (Resolves(i) /\ ResolvedValue(i) = <<>>)
         => IF ReadsSupportedTarget(i)
            THEN Status(i) = "Accepted" /\ last.results[i].attributeValue = Some(<<>>)
            ELSE Status(i) = "Rejected" /\ Reason(i) = "InvalidValue"

\* a batch read the Actual value and the Target of TxEndedInterval, which has
\* no value: the first is rejected, the second accepted with the empty string
C30_Witness ==
  /\ last.op = "getVariables"
  /\ Len(last.results) = 2
  /\ last.data[1] = [component |-> Component("SampledDataCtrlr"),
                     variable |-> Variable("TxEndedInterval"), attributeType |-> Actual]
  /\ last.data[2] = [component |-> Component("SampledDataCtrlr"),
                     variable |-> Variable("TxEndedInterval"), attributeType |-> Target]
  /\ Reason(1) = "InvalidValue"
  /\ last.results[1].additionalInfo = "Resolved variable value is empty"
  /\ Status(2) = "Accepted"
  /\ last.results[2].attributeValue = Some(<<>>)

----------------------------------------------------------------------------
(* SpecReset: runtime overrides and bounds are stored, read and reset *)

ResetVolatileTargets ==
  {Target_("SampledDataCtrlr", "TxUpdatedInterval"),
   Target_("SampledDataCtrlr", "TxEndedInterval")}

ResetBoundTarget == Target_("OCPPCommCtrlr", "HeartbeatInterval")

ResetGets ==
  GetRequests(ResetVolatileTargets, {Actual})
    \cup GetRequests({ResetBoundTarget}, {Actual, MinSet, MaxSet})

ResetSets ==
  SetRequests(ResetVolatileTargets, {Actual}, {V20})
    \cup SetRequests({Target_("SampledDataCtrlr", "TxUpdatedInterval")}, {Actual}, {V2})
    \cup SetRequests({ResetBoundTarget}, {MinSet, MaxSet}, {V20, V30})
    \cup SetRequests({ResetBoundTarget}, {Actual}, {V20})

InitReset == InitWith({EmptyStore})

NextReset ==
  \/ \E data \in Batches(ResetGets, {}) : GetVariables("CS1", data, NoFault, 1)
  \/ \E data \in Batches(ResetSets, {}) : SetVariables("CS1", data, NoFault, 1)
  \/ ResetRuntimeOverrides

SpecReset == InitReset /\ [][NextReset]_vars

----------------------------------------------------------------------------
(* C31 *)

\* the registry entries that are Volatile, as read requests of the Actual value
VolatileReads ==
  {[component |-> [name |-> V.component, instance |-> NoInstance],
    variable |-> [name |-> V.variable, instance |-> V.instance],
    attributeType |-> Actual] : V \in {W \in RegistryEntries : W.persistence = "Volatile"}}

\* every override that is stored in the map before is stored, with the same
\* value or another, in the map after
KeepsKeys(before, after) == \A k \in DOMAIN before : k \in DOMAIN after

\* after the step every Volatile variable reads, for every station, what the
\* state before the step answers when no runtime override is stored
ReadsAsNeverSet ==
  \A s \in Stations, d \in VolatileReads :
    ReadWith(store'[s], runtimeOverrides', minSetOverrides', maxSetOverrides', d)
      = ReadWith(store[s], <<>>, minSetOverrides, maxSetOverrides, d)

\* C31: resetRuntimeOverrides removes every runtime override, so that each
\* Volatile variable afterwards reads the value it has with no set, and leaves
\* minSetOverrides, maxSetOverrides, invalidVariables and the stores unchanged;
\* no operation removes a MinSet or MaxSet override that is stored.
C31_ResetRuntimeOverrides ==
  [][/\ last'.op = "resetRuntimeOverrides"
          => /\ DOMAIN runtimeOverrides' = {}
             /\ ReadsAsNeverSet
             /\ UNCHANGED <<minSetOverrides, maxSetOverrides, invalidVariables, store>>
     /\ KeepsKeys(minSetOverrides, minSetOverrides')
     /\ KeepsKeys(maxSetOverrides, maxSetOverrides')]_vars

\* a reset ran while overrides of both Volatile variables had been stored, with
\* both bounds of HeartbeatInterval in force and an invalid variable recorded;
\* TxUpdatedInterval reads its fallback and TxEndedInterval has no value again
C31_Witness ==
  /\ last.op = "resetRuntimeOverrides"
  /\ DOMAIN runtimeOverrides = {}
  /\ DOMAIN minSetOverrides # {}
  /\ DOMAIN maxSetOverrides # {}
  /\ invalidVariables # {}
  /\ IsSome(store["CS1"][KeyName("HeartbeatInterval", NoInstance)])
  /\ \A d \in VolatileReads :
       ReadNow("CS1", d).attributeValue
         = IF d.variable.name = "TxUpdatedInterval"
             THEN Some(IntToString(DEFAULT_TX_UPDATED_INTERVAL))
           ELSE None

----------------------------------------------------------------------------
(* SpecAlias: two registry entries that differ only in the variable instance *)

\* TxEndedInterval, and its instance Aligned named on the variable
AliasPlainTarget == Target_("SampledDataCtrlr", "TxEndedInterval")

AliasInstanceTarget ==
  [component |-> Component("SampledDataCtrlr"),
   variable |-> [name |-> "TxEndedInterval", instance |-> "Aligned"]]

AliasTargets ==
  {AliasPlainTarget, AliasInstanceTarget, Target_("SampledDataCtrlr", "TxUpdatedInterval")}

AliasGets == GetRequests(AliasTargets, {Actual, MinSet})

AliasSets ==
  SetRequests(AliasTargets, {Actual}, {V2, V20})
    \cup SetRequests({AliasInstanceTarget}, {MinSet}, {V20, V30})

InitAlias == InitWith({EmptyStore})

NextAlias ==
  \/ \E data \in Batches(AliasGets, {}) : GetVariables("CS1", data, NoFault, 1)
  \/ \E data \in Batches(AliasSets, {}) : SetVariables("CS1", data, NoFault, 1)
  \/ ResetRuntimeOverrides

SpecAlias == InitAlias /\ [][NextAlias]_vars

----------------------------------------------------------------------------
(* C32 *)

\* the registry entry the request d addresses
EntryOf(d) ==
  getVariableMetadata(d.component.name, d.variable.name,
                      Coalesce(d.variable.instance, d.component.instance))

\* what setVariables answers to the request d in a state of the given store
\* and overrides
WriteWith(cfg, overrides, minSet, maxSet, d) ==
  setVariable(validatePersistentMappings(
                [cfg |-> cfg, invalidVariables |-> {}, runtimeOverrides |-> overrides,
                 minSetOverrides |-> minSet, maxSetOverrides |-> maxSet, restarts |-> <<>>],
                NoFault, 1).m,
              d, NoFault).res

\* the request d is answered after the step as it is before the step
SameAnswers(d) ==
  IF "attributeValue" \in DOMAIN d
  THEN WriteWith(store'["CS1"], runtimeOverrides', minSetOverrides', maxSetOverrides', d)
         = WriteWith(store["CS1"], runtimeOverrides, minSetOverrides, maxSetOverrides, d)
  ELSE ReadWith(store'["CS1"], runtimeOverrides', minSetOverrides', maxSetOverrides', d)
         = ReadWith(store["CS1"], runtimeOverrides, minSetOverrides, maxSetOverrides, d)

\* C32: overrides of distinct registry entries never alias: a MinSet, MaxSet or
\* runtime override stored for one registry entry is never read back or
\* enforced for a different registry entry, in particular not for an entry
\* that differs only in the variable instance; so a write to one entry leaves
\* the answer to every read and write of a different entry as it was.
C32_NoAlias ==
  [][(last'.op = "setVariables" /\ Len(last'.data) = 1)
       => \A d \in AliasGets \cup AliasSets :
            EntryOf(d) # EntryOf(last'.data[1]) => SameAnswers(d)]_vars

----------------------------------------------------------------------------
(* SpecTarget: writes of the Actual and of the Target attribute *)

TargetTargets ==
  {Target_("TxCtrlr", "EVConnectionTimeOut"), Target_("SampledDataCtrlr", "TxEndedInterval")}

TargetGets == GetRequests(TargetTargets, {Actual, Target})

TargetSets ==
  SetRequests(TargetTargets, {Omitted, Actual, Target}, {V2, V20, VAbc})
    \cup SetRequests({Target_("DeviceDataCtrlr", "ValueSize")}, {Actual}, {V1})

InitTarget == InitWith({EmptyStore})

NextTarget ==
  \/ \E data \in Batches(TargetGets, {}) : GetVariables("CS1", data, NoFault, 1)
  \/ \E data \in Batches(TargetSets, {}) : SetVariables("CS1", data, NoFault, 1)
  \/ ResetRuntimeOverrides

SpecTarget == InitTarget /\ [][NextTarget]_vars

----------------------------------------------------------------------------
(* C33 *)

\* the manager state the set of the step works on: the state before the step
\* after the self-check of the call
CheckedBefore(s) == validatePersistentMappings(Manager(s), NoFault, 1).m

\* the request d passes the effective size limit and the validation of its
\* data type in the manager state m
PassesLimitAndType(m, d) ==
  /\ Len(d.attributeValue) <= effectiveLimit(m)
  /\ validateValue(Get(EntryOf(d)), d.attributeValue).ok

\* the step wrote a value to the store of station s or to runtimeOverrides
WroteValue(s) == store'[s] # CheckedBefore(s).cfg \/ runtimeOverrides' # runtimeOverrides

\* every read of the Actual value is answered after the step as after the
\* self-check before it
SameActualReads(s) ==
  \A d \in GetRequests(TargetTargets, {Actual}) :
    ReadWith(store'[s], runtimeOverrides', minSetOverrides', maxSetOverrides', d)
      = ReadWith(store[s], runtimeOverrides, minSetOverrides, maxSetOverrides, d)

\* C33: every value that setVariable writes to the store or to
\* runtimeOverrides has passed the effective size limit and the data-type
\* validation and is written by a request whose attribute is Actual; a
\* setVariable with attribute Target never changes the store,
\* runtimeOverrides, or the value a later getVariable Actual returns.
C33_WritesOnlyActual ==
  [][(last'.op = "setVariables" /\ Len(last'.data) = 1)
       => /\ WroteValue(last'.station)
               => /\ ResolvedAttribute(last'.data[1]) = Actual
                  /\ PassesLimitAndType(CheckedBefore(last'.station), last'.data[1])
          /\ last'.data[1].attributeType = Target
               => /\ ~WroteValue(last'.station)
                  /\ SameActualReads(last'.station)]_vars

----------------------------------------------------------------------------
(* C34 *)

HeartbeatKey == KeyOf(Target_("OCPPCommCtrlr", "HeartbeatInterval"))

\* the configuration key of HeartbeatInterval in the store of station s
HeartbeatStored(s) == store[s][KeyName("HeartbeatInterval", NoInstance)]

\* C34: after any sequence of setVariables calls (Actual, MinSet, MaxSet in any
\* order) the stored Actual value of the integer variable HeartbeatInterval lies
\* within the MinSet and MaxSet overrides in force: a bound write that would
\* exclude the current Actual value is not accepted.
C34_ActualWithinOverrides ==
  (IsSome(HeartbeatStored("CS1")) /\ MatchesSignedInteger(Get(HeartbeatStored("CS1")).value))
    => /\ ~BelowMinSet(convertToIntOrNaN(Get(HeartbeatStored("CS1")).value), HeartbeatKey)
       /\ ~AboveMaxSet(convertToIntOrNaN(Get(HeartbeatStored("CS1")).value), HeartbeatKey)

----------------------------------------------------------------------------
(* The state of the variable manager while the OCPP 1.6 station runs *)

ManagerIdle ==
  /\ store = [s \in Stations |-> EmptyStore]
  /\ invalidVariables = {}
  /\ runtimeOverrides = <<>>
  /\ minSetOverrides = <<>>
  /\ maxSetOverrides = <<>>
  /\ last = NoCall

----------------------------------------------------------------------------
(* ChargingStationWorkerBroadcastChannel: requests of the UI over the worker
   broadcast channel *)

\* ResponseStatus
SUCCESS == "success"

FAILURE == "failure"

\* the keys of the commandHandlers map
commandHandlers ==
  {"startChargingStation", "stopChargingStation", "openConnection", "closeConnection",
   "startAutomaticTransactionGenerator", "stopAutomaticTransactionGenerator",
   "startTransaction", "stopTransaction", "authorize", "statusNotification", "heartbeat",
   "meterValues"}

\* what a command handler's promise settles with: a value (undefined, or an
\* object of which the fields read here are kept) or an exception
Undefined == [undefined |-> TRUE, idTagInfoStatus |-> None, currentTime |-> FALSE, empty |-> FALSE]

Returned_(value) == [threw |-> FALSE, value |-> value, message |-> "-"]

Thrown_(message) == [threw |-> TRUE, value |-> Undefined, message |-> message]

\* an OCPP response: its idTagInfo.status if any, whether it has the field
\* currentTime, and whether it has no field at all
Response(idTagInfoStatus, currentTime) ==
  [undefined |-> FALSE, idTagInfoStatus |-> idTagInfoStatus, currentTime |-> currentTime,
   empty |-> (idTagInfoStatus = None /\ ~currentTime)]

\* validateMessageEvent: false for a message event that is no well-formed
\* request or response, else the message event
validateMessageEvent(messageEvent) == IF messageEvent.valid THEN Some(messageEvent) ELSE None

\* a response is [uuid, responsePayload], a request [uuid, command, requestPayload]
isResponse(data) == Len(data) = 2

\* the outcomes of commandHandler(command, requestPayload): an unknown command
\* throws, a payload that is undefined makes cleanRequestPayload throw (it
\* deletes fields of the payload), and a handler that ran returns or throws as
\* the station decides
commandHandler(command, requestPayload, handlerOutcomes) ==
  IF command \notin commandHandlers
    THEN {Thrown_("Unknown worker broadcast channel command")}
  ELSE IF requestPayload = None THEN {Thrown_("TypeError")}
  ELSE handlerOutcomes

commandResponseStatusToResponseStatus(command, commandResponse) ==
  IF command \in {"startTransaction", "stopTransaction", "authorize"}
    THEN IF commandResponse.idTagInfoStatus = Some("Accepted") THEN SUCCESS ELSE FAILURE
  ELSE IF command \in {"statusNotification", "meterValues"}
    THEN IF commandResponse.empty THEN SUCCESS ELSE FAILURE
  ELSE IF command = "heartbeat"
    THEN IF commandResponse.currentTime THEN SUCCESS ELSE FAILURE
  ELSE FAILURE

ResponsePayload(hashId, status, command) == [hashId |-> hashId, status |-> status, command |-> command]

commandResponseToResponsePayload(hashId, command, commandResponse) ==
  IF commandResponseStatusToResponseStatus(command, commandResponse) = SUCCESS
  THEN ResponsePayload(hashId, SUCCESS, None)
  ELSE ResponsePayload(hashId, FAILURE, Some(command))

\* the response payload requestHandler builds once the command handler settled
\* with the outcome given: try, catch
responsePayloadOf(hashId, command, outcome) ==
  IF outcome.threw THEN ResponsePayload(hashId, FAILURE, Some(command))
  ELSE IF outcome.value.undefined THEN ResponsePayload(hashId, SUCCESS, None)
  ELSE commandResponseToResponsePayload(hashId, command, outcome.value)

\* sendResponse([uuid, responsePayload]): the message is posted on the channel
sendResponse(messages, uuid, responsePayload) ==
  Append(messages, <<uuid, responsePayload>>)

\* the request is addressed to other stations
AddressedElsewhere(hashId, requestPayload) ==
  /\ requestPayload # None
  /\ Get(requestPayload).hashIds # None
  /\ \A i \in 1..Len(Get(Get(requestPayload).hashIds)) :
       Get(Get(requestPayload).hashIds)[i] # hashId

\* the request uses the deprecated field hashId
UsesHashId(requestPayload) == requestPayload # None /\ Get(requestPayload).hashId # None

\* the invocation of requestHandler for a message event, at the position pc
Invocation(messageEvent, pc, outcome) ==
  [messageEvent |-> messageEvent, pc |-> pc, outcome |-> outcome]

\* mutation of requestHandlerStart: hashIds is not looked at
requestHandlerStart_everyStation(hashId, messageEvent) ==
  IF validateMessageEvent(messageEvent) = None THEN "returned"
  ELSE IF isResponse(messageEvent.data) THEN "returned"
  ELSE IF UsesHashId(messageEvent.data[3]) THEN "returned"
  ELSE "awaitCommandHandler"

\* where requestHandler is after its synchronous start: it returned, or it
\* awaits the command handler
requestHandlerStart(hashId, messageEvent) ==
  IF validateMessageEvent(messageEvent) = None THEN "returned"
  ELSE IF isResponse(messageEvent.data) THEN "returned"
  ELSE IF AddressedElsewhere(hashId, messageEvent.data[3]) THEN "returned"
  ELSE IF UsesHashId(messageEvent.data[3]) THEN "returned"
  ELSE "awaitCommandHandler"

\* requestHandler(messageEvent), up to its await
RequestHandler(messageEvent) ==
  /\ tasks' = Append(tasks, Invocation(messageEvent,
                                       requestHandlerStart(chargingStation.stationInfo.hashId,
                                                           messageEvent),
                                       None))
  /\ UNCHANGED <<chargingStation, sent, handled, managerVars>>

\* requestHandler, from the await to its end: the command handler settled,
\* the response payload is built and sent in the finally block
RequestHandlerSettled(t, outcome) ==
  /\ tasks' = [tasks EXCEPT ![t] = Invocation(tasks[t].messageEvent, "done", Some(outcome))]
  /\ sent' = sendResponse(sent, tasks[t].messageEvent.data[1],
                          responsePayloadOf(chargingStation.stationInfo.hashId,
                                            tasks[t].messageEvent.data[2], outcome))
  /\ UNCHANGED <<chargingStation, handled, managerVars>>

\* requestHandler resumes when the promise of commandHandler settles
RequestHandlerResume(t, handlerOutcomes) ==
  /\ tasks[t].pc = "awaitCommandHandler"
  /\ \E outcome \in commandHandler(tasks[t].messageEvent.data[2],
                                   tasks[t].messageEvent.data[3], handlerOutcomes) :
       RequestHandlerSettled(t, outcome)

----------------------------------------------------------------------------
(* SpecChannel: message events arrive on the channel while handlers run *)

\* the most message events received
MaxMessages == 2

ThisHashId == "h1"

OtherHashId == "h2"

RequestPayload(hashId, hashIds) == Some([hashId |-> hashId, hashIds |-> hashIds])

\* no payload; a payload without hashIds; addressed to this station, alone or
\* among others; addressed to another station or to none; using hashId, with
\* and without hashIds
ChannelPayloads ==
  {None,
   RequestPayload(None, None),
   RequestPayload(None, Some(<<ThisHashId>>)),
   RequestPayload(None, Some(<<OtherHashId, ThisHashId>>)),
   RequestPayload(None, Some(<<OtherHashId>>)),
   RequestPayload(None, Some(<<>>)),
   RequestPayload(Some(ThisHashId), None),
   RequestPayload(Some(ThisHashId), Some(<<ThisHashId>>))}

ChannelCommands == {"startChargingStation", "startTransaction", "heartbeat", "unknownCommand"}

\* the message events with the uuid given: an invalid one, a response, and
\* the requests
ChannelMessages(uuid) ==
  {[valid |-> FALSE, data |-> <<uuid>>],
   [valid |-> TRUE, data |-> <<uuid, ResponsePayload(OtherHashId, SUCCESS, None)>>]}
    \cup {[valid |-> TRUE, data |-> <<uuid, c, p>>] : c \in ChannelCommands, p \in ChannelPayloads}

\* what a handler that ran settles with
ChannelOutcomes ==
  {Returned_(Undefined),
   Returned_(Response(Some("Accepted"), FALSE)),
   Returned_(Response(Some("Invalid"), FALSE)),
   Returned_(Response(None, TRUE)),
   Thrown_("Error")}

InitChannel ==
  /\ chargingStation = [stationInfo |-> [hashId |-> ThisHashId]]
  /\ tasks = <<>>
  /\ sent = <<>>
  /\ handled = <<>>
  /\ ManagerIdle

NextChannel ==
  \/ /\ Len(tasks) < MaxMessages
     /\ \E messageEvent \in ChannelMessages(Len(tasks) + 1) : RequestHandler(messageEvent)
  \/ \E t \in DOMAIN tasks : RequestHandlerResume(t, ChannelOutcomes)

SpecChannel == InitChannel /\ [][NextChannel]_vars

----------------------------------------------------------------------------
(* C35 *)

\* the number of responses sent that carry the uuid given
RECURSIVE ResponsesTo(_, _)
ResponsesTo(uuid, n) ==
  IF n = 0 THEN 0
  ELSE ResponsesTo(uuid, n - 1) + (IF sent[n][1] = uuid THEN 1 ELSE 0)

\* the response sent that carries the uuid given
ResponseTo(uuid) == sent[CHOOSE n \in DOMAIN sent : sent[n][1] = uuid][2]

\* the message event is a valid request whose hashIds is absent or holds the
\* hashId of this station, and that has no field hashId
Addressed(messageEvent) ==
  /\ messageEvent.valid
  /\ Len(messageEvent.data) = 3
  /\ \/ messageEvent.data[3] = None
     \/ /\ Get(messageEvent.data[3]).hashId = None
        /\ \/ Get(messageEvent.data[3]).hashIds = None
           \/ \E i \in DOMAIN Get(Get(messageEvent.data[3]).hashIds) :
                Get(Get(messageEvent.data[3]).hashIds)[i] = ThisHashId

\* the request of invocation t was answered once, with SUCCESS or FAILURE, and
\* with FAILURE if the command is unknown or the handler threw
AnsweredOnce(t) ==
  /\ ResponsesTo(tasks[t].messageEvent.data[1], Len(sent)) = 1
  /\ ResponseTo(tasks[t].messageEvent.data[1]).status \in {SUCCESS, FAILURE}
  /\ ResponseTo(tasks[t].messageEvent.data[1]).hashId = ThisHashId
  /\ (tasks[t].messageEvent.data[2] \notin commandHandlers \/ Get(tasks[t].outcome).threw)
       => ResponseTo(tasks[t].messageEvent.data[1]).status = FAILURE

\* C35: the worker broadcast channel answers each addressed request exactly
\* once: for every valid request whose hashIds is absent or holds this
\* station's hashId, and that has no field hashId, requestHandler sends one
\* response with the request's uuid once the command handler settled, SUCCESS or
\* FAILURE, FAILURE for an unknown command or a handler that threw, and none
\* before; it sends no response for a response message, an invalid message, a
\* request addressed to other stations or a request that uses hashId.
C35_AnswersOnce ==
  \A t \in DOMAIN tasks :
    IF Addressed(tasks[t].messageEvent)
    THEN /\ tasks[t].pc \in {"awaitCommandHandler", "done"}
         /\ tasks[t].pc = "awaitCommandHandler"
              => ResponsesTo(tasks[t].messageEvent.data[1], Len(sent)) = 0
         /\ tasks[t].pc = "done" => AnsweredOnce(t)
    ELSE /\ tasks[t].pc = "returned"
         /\ ResponsesTo(tasks[t].messageEvent.data[1], Len(sent)) = 0

\* two requests were answered in the reverse order of their arrival: the first,
\* addressed to this station among others, with SUCCESS, the second, an unknown
\* command without payload, with FAILURE
C35_Witness ==
  /\ Len(tasks) = 2
  /\ Len(sent) = 2
  /\ sent[1][1] = 2
  /\ sent[2][1] = 1
  /\ tasks[1].messageEvent.data[2] = "startTransaction"
  /\ tasks[1].messageEvent.data[3] = RequestPayload(None, Some(<<OtherHashId, ThisHashId>>))
  /\ sent[2][2].status = SUCCESS
  /\ tasks[2].messageEvent.data[2] = "unknownCommand"
  /\ tasks[2].messageEvent.data[3] = None
  /\ sent[1][2].status = FAILURE

----------------------------------------------------------------------------
(* OCPP16IncomingRequestService.incomingRequestHandler: requests of the
   central system to an OCPP 1.6 station *)

\* the keys of the incomingRequestHandlers map
incomingRequestHandlers ==
  {"Reset", "ClearCache", "UnlockConnector", "GetConfiguration", "ChangeConfiguration",
   "SetChargingProfile", "ClearChargingProfile", "ChangeAvailability",
   "RemoteStartTransaction", "RemoteStopTransaction", "GetDiagnostics", "TriggerMessage",
   "DataTransfer", "UpdateFirmware"}

\* the station's registration: the status of its boot notification response,
\* none before the first response
isRegistered(station) == station.bootNotificationResponse = Some("Accepted")

isInPendingState(station) == station.bootNotificationResponse = Some("Pending")

isInUnknownState(station) == station.bootNotificationResponse = None

getOcppStrictCompliance(station) == station.ocppStrictCompliance

\* OCPP16ServiceUtils.isIncomingRequestCommandSupported: the station's
\* configuration enables the command
isIncomingRequestCommandSupported(station, commandName) ==
  commandName \in station.commandsSupport

\* an OCPPError of the type given; any other exception has the type Error
OCPPError(errorType) == [ocppError |-> TRUE, errorType |-> errorType]

OtherError == [ocppError |-> FALSE, errorType |-> "Error"]

\* mutation of incomingRequestHandlerStart: a station in unknown state is served
\* whatever its strict compliance
incomingRequestHandlerStart_unknownServed(station, commandName, payloadValid) ==
  IF /\ getOcppStrictCompliance(station)
     /\ isInPendingState(station)
     /\ commandName \in {"RemoteStartTransaction", "RemoteStopTransaction"}
    THEN [pc |-> "threw", error |-> Some(OCPPError("SecurityError"))]
  ELSE IF isRegistered(station) \/ isInUnknownState(station)
    THEN IF /\ commandName \in incomingRequestHandlers
            /\ isIncomingRequestCommandSupported(station, commandName)
           THEN IF payloadValid THEN [pc |-> "awaitHandler", error |-> None]
                ELSE [pc |-> "threw", error |-> Some(OCPPError("FormationViolation"))]
         ELSE [pc |-> "threw", error |-> Some(OCPPError("NotImplemented"))]
  ELSE [pc |-> "threw", error |-> Some(OCPPError("SecurityError"))]

\* where incomingRequestHandler is after its synchronous start: it threw, or
\* it awaits the handler of the command; validatePayload throws for a payload
\* that is not valid
incomingRequestHandlerStart(station, commandName, payloadValid) ==
  IF /\ getOcppStrictCompliance(station)
     /\ isInPendingState(station)
     /\ commandName \in {"RemoteStartTransaction", "RemoteStopTransaction"}
    THEN [pc |-> "threw", error |-> Some(OCPPError("SecurityError"))]
  ELSE IF isRegistered(station) \/ (~getOcppStrictCompliance(station) /\ isInUnknownState(station))
    THEN IF /\ commandName \in incomingRequestHandlers
            /\ isIncomingRequestCommandSupported(station, commandName)
           THEN IF payloadValid THEN [pc |-> "awaitHandler", error |-> None]
                ELSE [pc |-> "threw", error |-> Some(OCPPError("FormationViolation"))]
         ELSE [pc |-> "threw", error |-> Some(OCPPError("NotImplemented"))]
  ELSE [pc |-> "threw", error |-> Some(OCPPError("SecurityError"))]

\* an invocation of incomingRequestHandler: its arguments, its position, the
\* exception it threw, and whether the command's handler was called
IncomingRequest(messageId, commandName, payloadValid, start, handlerCalled) ==
  [messageId |-> messageId, commandName |-> commandName, payloadValid |-> payloadValid,
   pc |-> start.pc, error |-> start.error, handlerCalled |-> handlerCalled]

\* incomingRequestHandler(chargingStation, messageId, commandName,
\* commandPayload), up to its await
IncomingRequestHandler(messageId, commandName, payloadValid) ==
  /\ tasks' = Append(tasks,
                     IncomingRequest(messageId, commandName, payloadValid,
                                     incomingRequestHandlerStart(chargingStation, commandName,
                                                                 payloadValid),
                                     incomingRequestHandlerStart(chargingStation, commandName,
                                                                 payloadValid).pc
                                       = "awaitHandler"))
  /\ UNCHANGED <<chargingStation, sent, handled, managerVars>>

\* incomingRequestHandler, from the await to its end: the handler threw and the
\* exception is thrown on, or it returned a response, which is sent
IncomingRequestHandlerSettled(t, outcome) ==
  /\ tasks[t].pc = "awaitHandler"
  /\ tasks' = [tasks EXCEPT ![t].pc = IF outcome.threw THEN "threw" ELSE "done",
                            ![t].error = IF outcome.threw THEN Some(OtherError) ELSE None]
  /\ sent' = IF outcome.threw THEN sent
             ELSE Append(sent, <<tasks[t].messageId, outcome.value, tasks[t].commandName>>)
  /\ UNCHANGED <<chargingStation, handled, managerVars>>

----------------------------------------------------------------------------
(* SpecIncoming: requests arrive at stations in every registration state *)

\* the most requests received
MaxRequests == 2

IncomingCommands ==
  {"RemoteStartTransaction", "RemoteStopTransaction", "Reset", "GetDiagnostics",
   "GetLocalListVersion"}

\* the station supports every command but GetDiagnostics, or only Reset
IncomingCommandsSupport ==
  {(incomingRequestHandlers \cup {"GetLocalListVersion"}) \ {"GetDiagnostics"}, {"Reset"}}

IncomingOutcomes == {Returned_(Response(None, FALSE)), Thrown_("Error")}

InitIncoming ==
  /\ chargingStation \in
       [bootNotificationResponse : {None, Some("Accepted"), Some("Pending"), Some("Rejected")},
        ocppStrictCompliance : BOOLEAN,
        commandsSupport : IncomingCommandsSupport]
  /\ tasks = <<>>
  /\ sent = <<>>
  /\ handled = <<>>
  /\ ManagerIdle

NextIncoming ==
  \/ /\ Len(tasks) < MaxRequests
     /\ \E commandName \in IncomingCommands, payloadValid \in BOOLEAN :
          IncomingRequestHandler(Len(tasks) + 1, commandName, payloadValid)
  \/ \E t \in DOMAIN tasks, outcome \in IncomingOutcomes : IncomingRequestHandlerSettled(t, outcome)

SpecIncoming == InitIncoming /\ [][NextIncoming]_vars

----------------------------------------------------------------------------
(* C36 *)

\* the station is registered, or in unknown state with strict compliance off
MayReceive ==
  \/ chargingStation.bootNotificationResponse = Some("Accepted")
  \/ chargingStation.bootNotificationResponse = None /\ ~chargingStation.ocppStrictCompliance

\* the command has a handler and the station supports it
Handles(commandName) ==
  commandName \in incomingRequestHandlers /\ commandName \in chargingStation.commandsSupport

\* a remote start or stop while the station is pending under strict compliance
RemoteWhilePending(commandName) ==
  /\ commandName \in {"RemoteStartTransaction", "RemoteStopTransaction"}
  /\ chargingStation.bootNotificationResponse = Some("Pending")
  /\ chargingStation.ocppStrictCompliance

\* the responses sent for the message id given
ResponsesFor(messageId) == {n \in DOMAIN sent : sent[n][1] = messageId}

\* C36: incomingRequestHandler sends a response for a message only after the
\* command's handler ran to completion, and calls a handler only when the
\* station is registered (or in unknown state with strict compliance off) and
\* the command is both registered and supported; in every other case, and for
\* RemoteStartTransaction and RemoteStopTransaction while the station is
\* pending under strict compliance, it throws an OCPPError, calls no handler
\* and sends no response.
C36_HandlerBeforeResponse ==
  \A t \in DOMAIN tasks :
    /\ ResponsesFor(tasks[t].messageId) # {}
         => /\ tasks[t].handlerCalled
            /\ tasks[t].pc = "done"
            /\ Cardinality(ResponsesFor(tasks[t].messageId)) = 1
    /\ tasks[t].handlerCalled => MayReceive /\ Handles(tasks[t].commandName)
    /\ (~MayReceive \/ ~Handles(tasks[t].commandName) \/ RemoteWhilePending(tasks[t].commandName))
         => /\ tasks[t].pc = "threw"
            /\ Get(tasks[t].error).ocppError
            /\ ~tasks[t].handlerCalled
            /\ ResponsesFor(tasks[t].messageId) = {}

\* a station in unknown state with strict compliance off answered a Reset after
\* its handler returned, and threw NotImplemented for the command it does not
\* support
C36_Witness ==
  /\ chargingStation.bootNotificationResponse = None
  /\ ~chargingStation.ocppStrictCompliance
  /\ Len(tasks) = 2
  /\ tasks[1].commandName = "Reset"
  /\ tasks[1].pc = "done"
  /\ ResponsesFor(1) = {1}
  /\ tasks[2].commandName = "GetDiagnostics"
  /\ tasks[2].error = Some(OCPPError("NotImplemented"))
  /\ ResponsesFor(2) = {}

----------------------------------------------------------------------------
(* OCPP16IncomingRequestService.handleRequestChangeConfiguration *)

\* an entry of the station's OCPP configuration
ConfigurationKey(key, value, readonly, reboot) ==
  [key |-> key, value |-> value, readonly |-> readonly, reboot |-> reboot]

\* ChargingStationConfigurationUtils.getConfigurationKey: the position of the
\* first entry whose key is the one given, compared without case if asked; 0
\* if there is none
ConfigurationUtils_getConfigurationKey(configurationKey, key, caseInsensitive) ==
  IF \E i \in DOMAIN configurationKey :
       IF caseInsensitive THEN Lower(configurationKey[i].key) = Lower(key)
       ELSE configurationKey[i].key = key
  THEN CHOOSE i \in DOMAIN configurationKey :
         /\ IF caseInsensitive THEN Lower(configurationKey[i].key) = Lower(key)
            ELSE configurationKey[i].key = key
         /\ \A j \in 1..(i - 1) :
              IF caseInsensitive THEN Lower(configurationKey[j].key) # Lower(key)
              ELSE configurationKey[j].key # key
  ELSE 0

\* ChargingStationConfigurationUtils.setConfigurationKeyValue: the value of the
\* entry found is replaced; no entry found, nothing is done
ConfigurationUtils_setConfigurationKeyValue(configurationKey, key, value, caseInsensitive) ==
  IF ConfigurationUtils_getConfigurationKey(configurationKey, key, caseInsensitive) = 0
  THEN configurationKey
  ELSE [configurationKey EXCEPT
          ![ConfigurationUtils_getConfigurationKey(configurationKey, key, caseInsensitive)].value
            = value]

\* the outcome of handleRequestChangeConfiguration
ChangeConfigurationOutcome(configurationKey, status, restartHeartbeat, restartWebSocketPing) ==
  [configurationKey |-> configurationKey, status |-> status,
   restartHeartbeat |-> restartHeartbeat, restartWebSocketPing |-> restartWebSocketPing]

\* the second write of the heartbeat interval: the key found is HeartBeatInterval,
\* HeartbeatInterval is written
changeHeartbeatInterval(configurationKey, keyToChange, valueChanged, value) ==
  IF keyToChange.key = "HeartBeatInterval" /\ valueChanged
  THEN ConfigurationUtils_setConfigurationKeyValue(configurationKey, "HeartbeatInterval",
                                                   value, FALSE)
  ELSE configurationKey

\* the third write left out
changeHeartBeatInterval_skipped(configurationKey, keyToChange, valueChanged, value) ==
  configurationKey

\* the third write: the key found is HeartbeatInterval, HeartBeatInterval is written
changeHeartBeatInterval(configurationKey, keyToChange, valueChanged, value) ==
  IF keyToChange.key = "HeartbeatInterval" /\ valueChanged
  THEN ConfigurationUtils_setConfigurationKeyValue(configurationKey, "HeartBeatInterval",
                                                   value, FALSE)
  ELSE configurationKey

\* the branch of a key that is found and not readonly
changeConfigurationKey(configurationKey, keyToChange, key, value, valueChanged) ==
  ChangeConfigurationOutcome(
    changeHeartBeatInterval(
      changeHeartbeatInterval(
        IF valueChanged
        THEN ConfigurationUtils_setConfigurationKeyValue(configurationKey, key, value, TRUE)
        ELSE configurationKey,
        keyToChange, valueChanged, value),
      keyToChange, valueChanged, value),
    IF keyToChange.reboot THEN "RebootRequired" ELSE "Accepted",
    IF keyToChange.key \in {"HeartBeatInterval", "HeartbeatInterval"} /\ valueChanged
    THEN 1 ELSE 0,
    IF keyToChange.key = "WebSocketPingInterval" /\ valueChanged THEN 1 ELSE 0)

\* handleRequestChangeConfiguration(chargingStation, {key, value})
handleRequestChangeConfiguration(configurationKey, key, value) ==
  IF ConfigurationUtils_getConfigurationKey(configurationKey, key, TRUE) = 0
    THEN ChangeConfigurationOutcome(configurationKey, "NotSupported", 0, 0)
  ELSE IF configurationKey[ConfigurationUtils_getConfigurationKey(configurationKey, key,
                                                                  TRUE)].readonly
    THEN ChangeConfigurationOutcome(configurationKey, "Rejected", 0, 0)
  ELSE changeConfigurationKey(
         configurationKey,
         configurationKey[ConfigurationUtils_getConfigurationKey(configurationKey, key, TRUE)],
         key, value,
         configurationKey[ConfigurationUtils_getConfigurationKey(configurationKey, key,
                                                                 TRUE)].value # value)

\* the record of a ChangeConfiguration request: its payload, the configuration
\* before it, and its outcome
ChangeConfigurationHandled(key, value, before, outcome) ==
  [command |-> "ChangeConfiguration", key |-> key, value |-> value, before |-> before,
   status |-> outcome.status, restartHeartbeat |-> outcome.restartHeartbeat,
   restartWebSocketPing |-> outcome.restartWebSocketPing]

HandleRequestChangeConfiguration(key, value) ==
  /\ chargingStation' =
       [chargingStation EXCEPT !.configurationKey =
          handleRequestChangeConfiguration(chargingStation.configurationKey, key,
                                           value).configurationKey]
  /\ handled' = ChangeConfigurationHandled(
                  key, value, chargingStation.configurationKey,
                  handleRequestChangeConfiguration(chargingStation.configurationKey, key, value))
  /\ UNCHANGED <<tasks, sent, managerVars>>

----------------------------------------------------------------------------
(* SpecChangeConfiguration: the central system changes configuration keys *)

ChangeValues == {"20", "30", "60"}

\* the keys requested: the two heartbeat keys, one of them in lower case, the
\* ping interval, a readonly key, a key that needs a reboot and an unknown key
ChangeKeys ==
  {"HeartbeatInterval", "HeartBeatInterval", "heartbeatinterval", "WebSocketPingInterval",
   "NumberOfConnectors", "MeterValueSampleInterval", "NoSuchKey"}

\* the configuration a station boots with: the heartbeat keys in either order,
\* with the values its configuration file gives them
BootConfiguration(first, firstValue, second, secondValue) ==
  << ConfigurationKey(first, firstValue, FALSE, FALSE),
     ConfigurationKey(second, secondValue, FALSE, FALSE),
     ConfigurationKey("WebSocketPingInterval", "60", FALSE, FALSE),
     ConfigurationKey("NumberOfConnectors", "20", TRUE, FALSE),
     ConfigurationKey("MeterValueSampleInterval", "60", FALSE, TRUE) >>

InitChangeConfiguration ==
  /\ chargingStation \in
       {[configurationKey |->
           BootConfiguration("HeartbeatInterval", v, "HeartBeatInterval", w)] :
          v \in {"30", "60"}, w \in {"30", "60"}}
         \cup {[configurationKey |->
                  BootConfiguration("HeartBeatInterval", "60", "HeartbeatInterval", "60")]}
  /\ tasks = <<>>
  /\ sent = <<>>
  /\ handled = <<>>
  /\ ManagerIdle

NextChangeConfiguration ==
  \E key \in ChangeKeys, value \in ChangeValues : HandleRequestChangeConfiguration(key, value)

SpecChangeConfiguration == InitChangeConfiguration /\ [][NextChangeConfiguration]_vars

----------------------------------------------------------------------------
(* C37 *)

\* the value of the entry whose key is exactly the one given
ValueOf(configurationKey, key) ==
  configurationKey[CHOOSE i \in DOMAIN configurationKey : configurationKey[i].key = key].value

\* the entries of the configuration before the request that it addresses
Requested(key) == {i \in DOMAIN handled.before : Lower(handled.before[i].key) = Lower(key)}

HeartbeatKeys == {"HeartbeatInterval", "HeartBeatInterval"}

\* the request changed the value of a heartbeat key
HeartbeatChanged ==
  \E k \in HeartbeatKeys :
    ValueOf(chargingStation.configurationKey, k) # ValueOf(handled.before, k)

\* C37: ChangeConfiguration keeps the two heartbeat keys in step and never
\* writes a protected key: a request on an unknown key returns NotSupported and
\* one on a readonly key Rejected, both with the configuration unchanged; when a
\* request changed the value of HeartbeatInterval or HeartBeatInterval both keys
\* hold the new value and restartHeartbeat was called once for the request, and
\* it was not called when no value changed.
C37_HeartbeatKeysInStep ==
  handled # <<>> =>
    /\ Requested(handled.key) = {}
         => handled.status = "NotSupported" /\ chargingStation.configurationKey = handled.before
    /\ (\E i \in Requested(handled.key) : handled.before[i].readonly)
         => handled.status = "Rejected" /\ chargingStation.configurationKey = handled.before
    /\ \A i \in DOMAIN handled.before :
         handled.before[i].readonly
           => chargingStation.configurationKey[i] = handled.before[i]
    /\ HeartbeatChanged
         => /\ \A k \in HeartbeatKeys :
                 ValueOf(chargingStation.configurationKey, k) = handled.value
            /\ handled.restartHeartbeat = 1
    /\ chargingStation.configurationKey = handled.before => handled.restartHeartbeat = 0

\* a request that names HeartBeatInterval found the entry HeartbeatInterval
\* first; both keys hold the new value and the heartbeat was restarted once
C37_Witness ==
  /\ handled # <<>>
  /\ handled.key = "HeartBeatInterval"
  /\ handled.before[1].key = "HeartbeatInterval"
  /\ handled.value = "20"
  /\ ValueOf(handled.before, "HeartbeatInterval") = "30"
  /\ ValueOf(chargingStation.configurationKey, "HeartbeatInterval") = "20"
  /\ ValueOf(chargingStation.configurationKey, "HeartBeatInterval") = "20"
  /\ handled.status = "Accepted"
  /\ handled.restartHeartbeat = 1

----------------------------------------------------------------------------
(* OCPP16IncomingRequestService.handleRequestUpdateFirmware and updateFirmware *)

\* the connectors of a station, connector 0 being the station itself
ConnectorIds == {0, 1}

\* OCPP16ServiceUtils.checkFeatureProfile: the feature profiles the station supports
checkFeatureProfile(station, featureProfile) == featureProfile \in station.featureProfiles

\* a request the station sends to the central system on behalf of a run
RequestSent(run, command, connectorId, status) ==
  [run |-> run, command |-> command, connectorId |-> connectorId, status |-> status]

\* a run of updateFirmware: where it is suspended and, in the loop over the
\* connectors, at which connector
UpdateFirmwareRun(run, pc, connectorId) == [run |-> run, pc |-> pc, connectorId |-> connectorId]

\* a run and the request it sent when it was suspended, if any
Suspended(task, requests) == [task |-> task, requests |-> requests]

\* the next connector of the loop after the one given that has an id above 0
\* and no transaction started; 0 if there is none
nextConnectorToNotify(station, after) ==
  IF \E c \in ConnectorIds : c > after /\ ~station.connectors[c].transactionStarted
  THEN CHOOSE c \in ConnectorIds :
         /\ c > after /\ ~station.connectors[c].transactionStarted
         /\ \A d \in ConnectorIds :
              d > after /\ ~station.connectors[d].transactionStarted => c <= d
  ELSE 0

\* updateFirmware after the loop over the connectors: the failure status is
\* sent, or Downloading is
updateFirmwareNotify(station, run) ==
  IF station.firmwareUpgrade.failureStatus # ""
  THEN Suspended(UpdateFirmwareRun(run, "awaitFailureStatus", 0),
                 <<RequestSent(run, "FirmwareStatusNotification", 0,
                               station.firmwareUpgrade.failureStatus)>>)
  ELSE Suspended(UpdateFirmwareRun(run, "awaitDownloading", 0),
                 <<RequestSent(run, "FirmwareStatusNotification", 0, "Downloading")>>)

\* updateFirmware from the connector after the one given up to its next await
updateFirmwareLoop(station, run, after) ==
  IF nextConnectorToNotify(station, after) # 0
  THEN Suspended(UpdateFirmwareRun(run, "awaitStatusNotification",
                                   nextConnectorToNotify(station, after)),
                 <<RequestSent(run, "StatusNotification",
                               nextConnectorToNotify(station, after), "Unavailable")>>)
  ELSE updateFirmwareNotify(station, run)

\* the guard of handleRequestUpdateFirmware: a firmware update is in progress
updateInProgress(station) ==
  /\ station.stationInfo.firmwareStatus # "undefined"
  /\ station.stationInfo.firmwareStatus # "Installed"

\* handleRequestUpdateFirmware: refused without the feature profile or with an
\* update in progress; else updateFirmware is called at once, up to its first
\* await, or a timer is set for the retrieve date
HandleRequestUpdateFirmware(retrieveDatePassed) ==
  /\ Len(handled) < MaxRequests
  /\ handled' = Append(handled, "UpdateFirmware")
  /\ IF \/ ~checkFeatureProfile(chargingStation, "FirmwareManagement")
        \/ updateInProgress(chargingStation)
       THEN UNCHANGED <<chargingStation, tasks, sent>>
     ELSE IF retrieveDatePassed
       THEN /\ tasks' = Append(tasks, updateFirmwareLoop(chargingStation,
                                                         Len(tasks) + 1, 0).task)
            /\ sent' = sent \o updateFirmwareLoop(chargingStation, Len(tasks) + 1, 0).requests
            /\ UNCHANGED chargingStation
     ELSE /\ tasks' = Append(tasks, UpdateFirmwareRun(Len(tasks) + 1, "setTimeout", 0))
          /\ UNCHANGED <<chargingStation, sent>>
  /\ UNCHANGED managerVars

\* the timer of a later retrieve date fires: updateFirmware runs up to its
\* first await
UpdateFirmwareTimeout(t) ==
  /\ tasks[t].pc = "setTimeout"
  /\ tasks' = [tasks EXCEPT ![t] = updateFirmwareLoop(chargingStation, t, 0).task]
  /\ sent' = sent \o updateFirmwareLoop(chargingStation, t, 0).requests
  /\ UNCHANGED <<chargingStation, handled, managerVars>>

\* a request of the run is rejected: updateFirmware rejects, which the caller
\* catches and ignores
UpdateFirmwareRejected(t) ==
  /\ tasks[t].pc \in {"awaitStatusNotification", "awaitFailureStatus", "awaitDownloading",
                      "awaitDownloaded", "awaitInstalling"}
  /\ tasks' = [tasks EXCEPT ![t].pc = "rejected"]
  /\ UNCHANGED <<chargingStation, sent, handled, managerVars>>

\* the StatusNotification of a connector is answered: the connector is
\* unavailable, and the loop goes on
UpdateFirmwareConnectorNotified(t) ==
  /\ tasks[t].pc = "awaitStatusNotification"
  /\ chargingStation' =
       [chargingStation EXCEPT !.connectors[tasks[t].connectorId].status = "Unavailable"]
  /\ tasks' = [tasks EXCEPT ![t] = updateFirmwareLoop(chargingStation', t,
                                                      tasks[t].connectorId).task]
  /\ sent' = sent \o updateFirmwareLoop(chargingStation', t, tasks[t].connectorId).requests
  /\ UNCHANGED <<handled, managerVars>>

\* the notification of the failure status is answered: the run returns
UpdateFirmwareFailed(t) ==
  /\ tasks[t].pc = "awaitFailureStatus"
  /\ tasks' = [tasks EXCEPT ![t].pc = "done"]
  /\ UNCHANGED <<chargingStation, sent, handled, managerVars>>

\* the notification of a status is answered: the status is stored, and the
\* run sleeps; after Installing it sleeps only if the station is to reset
UpdateFirmwareNotified(t, awaited, status, sleeps) ==
  /\ tasks[t].pc = awaited
  /\ chargingStation' = [chargingStation EXCEPT !.stationInfo.firmwareStatus = status]
  /\ tasks' = [tasks EXCEPT ![t].pc = IF sleeps THEN "sleep" \o status ELSE "done"]
  /\ UNCHANGED <<sent, handled, managerVars>>

\* the sleep after a status is over: the next status is notified
UpdateFirmwareSlept(t, status, next) ==
  /\ tasks[t].pc = "sleep" \o status
  /\ tasks' = [tasks EXCEPT ![t].pc = "await" \o next]
  /\ sent' = Append(sent, RequestSent(t, "FirmwareStatusNotification", 0, next))
  /\ UNCHANGED <<chargingStation, handled, managerVars>>

\* the sleep after Installing is over: the station is reset, and the run ends
\* when the reset has
UpdateFirmwareReset(t) ==
  /\ tasks[t].pc \in {"sleepInstalling", "awaitReset"}
  /\ tasks' = [tasks EXCEPT ![t].pc = IF tasks[t].pc = "awaitReset" THEN "done"
                                      ELSE "awaitReset"]
  /\ UNCHANGED <<chargingStation, sent, handled, managerVars>>

\* updateFirmware resumes at the await it is suspended at
UpdateFirmware(t) ==
  \/ UpdateFirmwareTimeout(t)
  \/ UpdateFirmwareRejected(t)
  \/ UpdateFirmwareConnectorNotified(t)
  \/ UpdateFirmwareFailed(t)
  \/ UpdateFirmwareNotified(t, "awaitDownloading", "Downloading", TRUE)
  \/ UpdateFirmwareSlept(t, "Downloading", "Downloaded")
  \/ UpdateFirmwareNotified(t, "awaitDownloaded", "Downloaded", TRUE)
  \/ UpdateFirmwareSlept(t, "Downloaded", "Installing")
  \/ UpdateFirmwareNotified(t, "awaitInstalling", "Installing",
                            chargingStation.firmwareUpgrade.reset)
  \/ UpdateFirmwareReset(t)

----------------------------------------------------------------------------
(* SpecFirmware: UpdateFirmware requests arrive while updates run *)

\* a connector of a station
Connector(transactionStarted, status) ==
  [transactionStarted |-> transactionStarted, status |-> status]

\* the stations: with or without the FirmwareManagement profile, with no
\* firmware status yet or a firmware installed, with or without a failure
\* status configured, resetting after the update or not, connector 1 in a
\* transaction or not
FirmwareStations ==
  {[featureProfiles |-> profiles,
    stationInfo |-> [firmwareStatus |-> status],
    firmwareUpgrade |-> [failureStatus |-> failureStatus, reset |-> reset],
    connectors |-> [c \in ConnectorIds |->
                      IF c = 0 THEN Connector(TRUE, "Available")
                      ELSE Connector(transactionStarted,
                                     IF transactionStarted THEN "Charging" ELSE "Available")]] :
     profiles \in {{"Core"}, {"Core", "FirmwareManagement"}},
     status \in {"undefined", "Installed"},
     failureStatus \in {"", "DownloadFailed"},
     reset \in BOOLEAN,
     transactionStarted \in BOOLEAN}

InitFirmware ==
  /\ chargingStation \in FirmwareStations
  /\ tasks = <<>>
  /\ sent = <<>>
  /\ handled = <<>>
  /\ ManagerIdle

NextFirmware ==
  \/ \E retrieveDatePassed \in BOOLEAN : HandleRequestUpdateFirmware(retrieveDatePassed)
  \/ \E t \in DOMAIN tasks : UpdateFirmware(t)

SpecFirmware == InitFirmware /\ [][NextFirmware]_vars

----------------------------------------------------------------------------
(* C38 *)

\* the runs of updateFirmware that have started and not ended
RunsInProgress == {t \in DOMAIN tasks : tasks[t].pc \notin {"setTimeout", "done", "rejected"}}

\* the firmware statuses a run has notified, in the order sent
RECURSIVE FirmwareStatusesOf(_, _)
FirmwareStatusesOf(requests, run) ==
  IF requests = <<>> THEN <<>>
  ELSE IF Head(requests).run = run /\ Head(requests).command = "FirmwareStatusNotification"
    THEN <<Head(requests).status>> \o FirmwareStatusesOf(Tail(requests), run)
  ELSE FirmwareStatusesOf(Tail(requests), run)

FirmwareStatusOrder == <<"Downloading", "Downloaded", "Installing">>

\* the statuses of a run are the first ones of the order, or the failure status alone
InOrder(statuses) ==
  \/ \E n \in 0..Len(FirmwareStatusOrder) : statuses = SubSeq(FirmwareStatusOrder, 1, n)
  \/ statuses = <<chargingStation.firmwareUpgrade.failureStatus>>

\* C38: at most one simulated firmware update runs per station at a time: a
\* second UpdateFirmware request that arrives while an update is in progress
\* does not start another run of updateFirmware, and within one run the
\* firmware statuses are notified in the order Downloading, Downloaded,
\* Installing, or only the configured failure status is.
C38_OneUpdateAtATime ==
  /\ Cardinality(RunsInProgress) <= 1
  /\ \A t \in DOMAIN tasks : InOrder(FirmwareStatusesOf(sent, t))

\* the part of C38 on the order of the statuses within one run
C38_StatusesInOrder == \A t \in DOMAIN tasks : InOrder(FirmwareStatusesOf(sent, t))

\* an UpdateFirmware request was accepted while the run of the first was still
\* waiting for the answer to its first notification
C38_TwoRuns ==
  /\ Len(handled) = 2
  /\ Cardinality(RunsInProgress) = 2
  /\ chargingStation.stationInfo.firmwareStatus = "undefined"

----------------------------------------------------------------------------
(* OCPP16IncomingRequestService.handleRequestClearChargingProfile *)

\* a charging profile, by the fields the handler reads
ChargingProfile(chargingProfileId, stackLevel, chargingProfilePurpose) ==
  [chargingProfileId |-> chargingProfileId, stackLevel |-> stackLevel,
   chargingProfilePurpose |-> chargingProfilePurpose]

\* a ClearChargingProfile request; each field is optional
ClearChargingProfileRequest(id, connectorId, chargingProfilePurpose, stackLevel) ==
  [id |-> id, connectorId |-> connectorId, chargingProfilePurpose |-> chargingProfilePurpose,
   stackLevel |-> stackLevel]

\* Utils.isEmptyArray of the optional list of charging profiles of a connector
isEmptyArray(chargingProfiles) == chargingProfiles = None \/ Get(chargingProfiles) = <<>>

\* Array.prototype.splice(index, 1), the index counted from 0: the element at
\* the index is removed if there is one
splice(array, index) ==
  IF index + 1 \in DOMAIN array
  THEN SubSeq(array, 1, index) \o SubSeq(array, index + 2, Len(array))
  ELSE array

\* the four conditions under which the loop clears the profile at hand
clearCurrentCP(chargingProfile, commandPayload) ==
  \/ commandPayload.id = Some(chargingProfile.chargingProfileId)
  \/ /\ commandPayload.chargingProfilePurpose = None
     /\ commandPayload.stackLevel = Some(chargingProfile.stackLevel)
  \/ /\ chargingProfile.stackLevel = 0
     /\ commandPayload.chargingProfilePurpose = Some(chargingProfile.chargingProfilePurpose)
  \/ /\ commandPayload.stackLevel = Some(chargingProfile.stackLevel)
     /\ commandPayload.chargingProfilePurpose = Some(chargingProfile.chargingProfilePurpose)

\* the state of the loops of the handler: the connectors, whether a profile
\* was cleared, and whether an exception was thrown
Clearing(connectors, clearedCP, threw) ==
  [connectors |-> connectors, clearedCP |-> clearedCP, threw |-> threw]

\* the callback of forEach at a profile to clear: splice is called on the list
\* of the connector of the request, which throws if that connector has none
clearAt(clearing, requestedId, index) ==
  IF clearing.connectors[requestedId].chargingProfiles = None
  THEN Clearing(clearing.connectors, clearing.clearedCP, TRUE)
  ELSE Clearing([clearing.connectors EXCEPT ![requestedId].chargingProfiles =
                   Some(splice(Get(clearing.connectors[requestedId].chargingProfiles), index))],
                TRUE, FALSE)

\* forEach over the profiles of a connector from the index given, counted from
\* 0, up to the length the list had when forEach began; an index the list no
\* longer has is passed over
RECURSIVE forEachChargingProfile(_, _, _, _, _, _)
forEachChargingProfile(clearing, commandPayload, requestedId, connectorId, index, length) ==
  IF clearing.threw \/ index >= length THEN clearing
  ELSE IF index + 1 \notin DOMAIN Get(clearing.connectors[connectorId].chargingProfiles)
    THEN forEachChargingProfile(clearing, commandPayload, requestedId, connectorId,
                                index + 1, length)
  ELSE IF clearCurrentCP(Get(clearing.connectors[connectorId].chargingProfiles)[index + 1],
                         commandPayload)
    THEN forEachChargingProfile(clearAt(clearing, requestedId, index), commandPayload,
                                requestedId, connectorId, index + 1, length)
  ELSE forEachChargingProfile(clearing, commandPayload, requestedId, connectorId,
                              index + 1, length)

\* the loop over the connectors of the station, in the order of their ids
RECURSIVE forEachConnector(_, _, _, _)
forEachConnector(clearing, commandPayload, requestedId, connectorId) ==
  IF clearing.threw \/ connectorId \notin DOMAIN clearing.connectors THEN clearing
  ELSE IF isEmptyArray(clearing.connectors[connectorId].chargingProfiles)
    THEN forEachConnector(clearing, commandPayload, requestedId, connectorId + 1)
  ELSE forEachConnector(
         forEachChargingProfile(clearing, commandPayload, requestedId, connectorId, 0,
                                Len(Get(clearing.connectors[connectorId].chargingProfiles))),
         commandPayload, requestedId, connectorId + 1)

\* what the handler returns or throws, and the connectors it leaves
ClearChargingProfileOutcome(clearing) ==
  [connectors |-> clearing.connectors,
   status |-> IF clearing.threw THEN "TypeError"
              ELSE IF clearing.clearedCP THEN "Accepted" ELSE "Unknown"]

\* handleRequestClearChargingProfile(chargingStation, commandPayload)
handleRequestClearChargingProfile(station, commandPayload) ==
  IF ~checkFeatureProfile(station, "SmartCharging")
    THEN ClearChargingProfileOutcome(Clearing(station.connectors, FALSE, FALSE))
  ELSE IF \/ commandPayload.connectorId = None
          \/ Get(commandPayload.connectorId) \notin DOMAIN station.connectors
    THEN ClearChargingProfileOutcome(Clearing(station.connectors, FALSE, FALSE))
  ELSE IF /\ Get(commandPayload.connectorId) # 0
          /\ ~isEmptyArray(station.connectors[Get(commandPayload.connectorId)].chargingProfiles)
    THEN ClearChargingProfileOutcome(
           Clearing([station.connectors EXCEPT
                       ![Get(commandPayload.connectorId)].chargingProfiles = Some(<<>>)],
                    TRUE, FALSE))
  ELSE IF Get(commandPayload.connectorId) = 0
    THEN ClearChargingProfileOutcome(
           forEachConnector(Clearing(station.connectors, FALSE, FALSE), commandPayload, 0, 0))
  ELSE ClearChargingProfileOutcome(Clearing(station.connectors, FALSE, FALSE))

\* the record of a ClearChargingProfile request: its payload, the connectors
\* before it, and what it returned
ClearChargingProfileHandled(commandPayload, before, status) ==
  [command |-> "ClearChargingProfile", commandPayload |-> commandPayload, before |-> before,
   status |-> status]

HandleRequestClearChargingProfile(commandPayload) ==
  /\ chargingStation' =
       [chargingStation EXCEPT !.connectors =
          handleRequestClearChargingProfile(chargingStation, commandPayload).connectors]
  /\ handled' = ClearChargingProfileHandled(
                  commandPayload, chargingStation.connectors,
                  handleRequestClearChargingProfile(chargingStation, commandPayload).status)
  /\ UNCHANGED <<tasks, sent, managerVars>>

----------------------------------------------------------------------------
(* SpecClearProfile: the central system clears charging profiles *)

\* three profiles: one of stack level 0, two of stack level 1, two of one purpose
ChargingProfiles ==
  {ChargingProfile(1, 0, "TxDefaultProfile"), ChargingProfile(2, 1, "TxProfile"),
   ChargingProfile(3, 1, "TxDefaultProfile")}

\* the lists of profiles of a connector: none, an empty one, and the lists of
\* one or two different profiles
ChargingProfileLists ==
  {None, Some(<<>>)} \cup {Some(<<p>>) : p \in ChargingProfiles}
    \cup {Some(<<pq[1], pq[2]>>) :
            pq \in {x \in ChargingProfiles \X ChargingProfiles : x[1] # x[2]}}

ClearProfileStations ==
  {[featureProfiles |-> profiles,
    connectors |-> [c \in ConnectorIds |->
                      [chargingProfiles |-> IF c = 0 THEN station ELSE connector]]] :
     profiles \in {{"Core"}, {"Core", "SmartCharging"}},
     station \in ChargingProfileLists, connector \in ChargingProfileLists}

\* the requests: without connector id, for the station, for connector 1 and
\* for a connector the station does not have; by id, stack level, purpose
ClearProfileRequests ==
  {ClearChargingProfileRequest(id, connectorId, purpose, stackLevel) :
     id \in {None, Some(2)},
     connectorId \in {None, Some(0), Some(1), Some(2)},
     purpose \in {None, Some("TxDefaultProfile")},
     stackLevel \in {None, Some(0), Some(1)}}

InitClearProfile ==
  /\ chargingStation \in ClearProfileStations
  /\ tasks = <<>>
  /\ sent = <<>>
  /\ handled = <<>>
  /\ ManagerIdle

NextClearProfile ==
  \E commandPayload \in ClearProfileRequests : HandleRequestClearChargingProfile(commandPayload)

SpecClearProfile == InitClearProfile /\ [][NextClearProfile]_vars

----------------------------------------------------------------------------
(* C39 *)

\* the profiles of a list that the request does not match, in their order
RECURSIVE Unmatched(_, _)
Unmatched(chargingProfiles, commandPayload) ==
  IF chargingProfiles = <<>> THEN <<>>
  ELSE IF clearCurrentCP(Head(chargingProfiles), commandPayload)
    THEN Unmatched(Tail(chargingProfiles), commandPayload)
  ELSE <<Head(chargingProfiles)>> \o Unmatched(Tail(chargingProfiles), commandPayload)

\* the profiles of an optional list
ProfilesOf(chargingProfiles) == IF chargingProfiles = None THEN <<>> ELSE Get(chargingProfiles)

\* the request named no connector: no id, or the id 0
WithoutConnectorId == handled.commandPayload.connectorId \in {None, Some(0)}

\* on every connector exactly the matching profiles were removed
RemovedMatching ==
  \A c \in ConnectorIds :
    ProfilesOf(chargingStation.connectors[c].chargingProfiles)
      = Unmatched(ProfilesOf(handled.before[c].chargingProfiles), handled.commandPayload)

\* a profile was removed from some connector
RemovedSome ==
  \E c \in ConnectorIds :
    ProfilesOf(chargingStation.connectors[c].chargingProfiles)
      # ProfilesOf(handled.before[c].chargingProfiles)

\* the request named a connector above 0 that had profiles
WithConnectorId ==
  /\ handled.commandPayload.connectorId = Some(1)
  /\ ProfilesOf(handled.before[1].chargingProfiles) # <<>>

\* the profiles of the connector named were cleared, and no other
ClearedConnector ==
  /\ ProfilesOf(chargingStation.connectors[1].chargingProfiles) = <<>>
  /\ chargingStation.connectors[0] = handled.before[0]
  /\ handled.status = "Accepted"

\* C39: on a station with the SmartCharging profile, ClearChargingProfile without
\* a connector id removes, on every connector, exactly the charging profiles that
\* match the request and no other, and returns Accepted if a profile was removed
\* and Unknown otherwise; with a connector id above 0 that has profiles it clears
\* all profiles of that connector only.
C39_ClearsMatching ==
  handled # <<>> /\ checkFeatureProfile(chargingStation, "SmartCharging") =>
    /\ WithoutConnectorId =>
         /\ RemovedMatching
         /\ handled.status = IF RemovedSome THEN "Accepted" ELSE "Unknown"
    /\ WithConnectorId => ClearedConnector

\* the part of C39 on a request with a connector id above 0
C39_ClearsConnector ==
  handled # <<>> /\ checkFeatureProfile(chargingStation, "SmartCharging") =>
    (WithConnectorId => ClearedConnector)

\* a request for the station by stack level 1 matched the profile of connector 1
\* and removed a profile of the station that it does not match
C39_WrongConnector ==
  /\ handled # <<>>
  /\ handled.commandPayload = ClearChargingProfileRequest(None, Some(0), None, Some(1))
  /\ handled.before[0].chargingProfiles = Some(<<ChargingProfile(1, 0, "TxDefaultProfile")>>)
  /\ handled.before[1].chargingProfiles = Some(<<ChargingProfile(2, 1, "TxProfile")>>)
  /\ chargingStation.connectors[0].chargingProfiles = Some(<<>>)
  /\ chargingStation.connectors[1].chargingProfiles = handled.before[1].chargingProfiles
  /\ handled.status = "Accepted"

----------------------------------------------------------------------------
(* OCPP16IncomingRequestService.handleRequestRemoteStartTransaction *)

\* a call of handleRequestRemoteStartTransaction: its payload, the await it is
\* suspended at, the answer to its StartTransaction request, and the response
\* it returned or the error it threw
RemoteStart(connectorId, chargingProfile, pc, startTransaction, response, error) ==
  [connectorId |-> connectorId, chargingProfile |-> chargingProfile, pc |-> pc,
   startTransaction |-> startTransaction, response |-> response, error |-> error]

\* the call at another await, or at its end
RemoteStartAt(task, pc, response, error) ==
  RemoteStart(task.connectorId, task.chargingProfile, pc, task.startTransaction, response, error)

\* ChargingStation.getConnectorStatus: the entry of the connectors map, absent
\* for an id the station does not have
getConnectorStatus(station, connectorId) ==
  IF connectorId \in DOMAIN station.connectors THEN Some(station.connectors[connectorId])
  ELSE None

\* notifyRemoteStartTransactionRejected up to its await: the status of a
\* connector that does not exist cannot be read; a connector not Available is
\* notified Available; else Rejected is returned
notifyRemoteStartTransactionRejected(station, run, task) ==
  IF getConnectorStatus(station, task.connectorId) = None
    THEN Suspended(RemoteStartAt(task, "threw", "", "TypeError"), <<>>)
  ELSE IF Get(getConnectorStatus(station, task.connectorId)).status # "Available"
    THEN Suspended(RemoteStartAt(task, "awaitAvailable", "", ""),
                   <<RequestSent(run, "StatusNotification", task.connectorId, "Available")>>)
  ELSE Suspended(RemoteStartAt(task, "done", "Rejected", ""), <<>>)

\* setRemoteStartTransactionChargingProfile: no profile or a TxProfile is
\* allowed, a profile of another purpose is not
setRemoteStartTransactionChargingProfile(cp) == cp = None \/ Get(cp) = "TxProfile"

\* the start of the transaction: the StartTransaction request is sent if the
\* charging profile is allowed
startRemoteTransaction(station, run, task) ==
  IF setRemoteStartTransactionChargingProfile(task.chargingProfile)
  THEN Suspended(RemoteStartAt(task, "awaitStartTransaction", "", ""),
                 <<RequestSent(run, "StartTransaction", task.connectorId, "")>>)
  ELSE notifyRemoteStartTransactionRejected(station, run, task)

\* the handler after the connector is Preparing, up to its next await
authorizeRemoteStart(station, run, task) ==
  IF ~station.available
    THEN notifyRemoteStartTransactionRejected(station, run, task)
  ELSE IF ~station.authorizeRemoteTxRequests
    THEN startRemoteTransaction(station, run, task)
  ELSE IF station.localAuthorized
    THEN startRemoteTransaction(station, run, task)
  ELSE IF station.mustAuthorizeAtRemoteStart
    THEN Suspended(RemoteStartAt(task, "awaitAuthorize", "", ""),
                   <<RequestSent(run, "Authorize", task.connectorId, "")>>)
  ELSE notifyRemoteStartTransactionRejected(station, run, task)

\* handleRequestRemoteStartTransaction up to its first await
remoteStartTransaction(station, run, task) ==
  IF task.connectorId \in DOMAIN station.connectors
  THEN Suspended(RemoteStartAt(task, "awaitPreparing", "", ""),
                 <<RequestSent(run, "StatusNotification", task.connectorId, "Preparing")>>)
  ELSE notifyRemoteStartTransactionRejected(station, run, task)

HandleRequestRemoteStartTransaction(connectorId, chargingProfile) ==
  /\ Len(tasks) < MaxRequests
  /\ tasks' = Append(tasks,
                     remoteStartTransaction(
                       chargingStation, Len(tasks) + 1,
                       RemoteStart(connectorId, chargingProfile, "", "", "", "")).task)
  /\ sent' = sent \o remoteStartTransaction(
                       chargingStation, Len(tasks) + 1,
                       RemoteStart(connectorId, chargingProfile, "", "", "", "")).requests
  /\ UNCHANGED <<chargingStation, handled, managerVars>>

\* the StatusNotification Preparing is answered: the connector is Preparing,
\* and the handler goes on to the authorization
RemoteStartPrepared(t) ==
  /\ tasks[t].pc = "awaitPreparing"
  /\ chargingStation' =
       [chargingStation EXCEPT !.connectors[tasks[t].connectorId].status = "Preparing"]
  /\ tasks' = [tasks EXCEPT ![t] = authorizeRemoteStart(chargingStation', t, tasks[t]).task]
  /\ sent' = sent \o authorizeRemoteStart(chargingStation', t, tasks[t]).requests
  /\ UNCHANGED <<handled, managerVars>>

\* the Authorize request is answered
RemoteStartAuthorized(t, status) ==
  /\ tasks[t].pc = "awaitAuthorize"
  /\ tasks' = [tasks EXCEPT ![t] =
                 IF status = "Accepted"
                 THEN startRemoteTransaction(chargingStation, t, tasks[t]).task
                 ELSE notifyRemoteStartTransactionRejected(chargingStation, t, tasks[t]).task]
  /\ sent' = sent \o
               IF status = "Accepted"
               THEN startRemoteTransaction(chargingStation, t, tasks[t]).requests
               ELSE notifyRemoteStartTransactionRejected(chargingStation, t, tasks[t]).requests
  /\ UNCHANGED <<chargingStation, handled, managerVars>>

\* the call with the answer to its StartTransaction request
StartTransactionAnswered(task, status) == [task EXCEPT !.startTransaction = status]

\* the StartTransaction request is answered: Accepted is returned for an
\* accepted id tag
RemoteStartStarted(t, status) ==
  /\ tasks[t].pc = "awaitStartTransaction"
  /\ tasks' = [tasks EXCEPT ![t] =
                 IF status = "Accepted"
                 THEN RemoteStartAt(StartTransactionAnswered(tasks[t], status),
                                    "done", "Accepted", "")
                 ELSE notifyRemoteStartTransactionRejected(
                        chargingStation, t, StartTransactionAnswered(tasks[t], status)).task]
  /\ sent' = sent \o
               IF status = "Accepted" THEN <<>>
               ELSE notifyRemoteStartTransactionRejected(
                      chargingStation, t, StartTransactionAnswered(tasks[t], status)).requests
  /\ UNCHANGED <<chargingStation, handled, managerVars>>

\* the StatusNotification Available is answered: the connector is Available,
\* and Rejected is returned
RemoteStartRejected(t) ==
  /\ tasks[t].pc = "awaitAvailable"
  /\ chargingStation' =
       [chargingStation EXCEPT !.connectors[tasks[t].connectorId].status = "Available"]
  /\ tasks' = [tasks EXCEPT ![t] = RemoteStartAt(tasks[t], "done", "Rejected", "")]
  /\ UNCHANGED <<sent, handled, managerVars>>

\* a request of the handler is rejected: the handler throws what the request threw
RemoteStartRequestFailed(t) ==
  /\ tasks[t].pc \in {"awaitPreparing", "awaitAuthorize", "awaitStartTransaction",
                      "awaitAvailable"}
  /\ tasks' = [tasks EXCEPT ![t] = RemoteStartAt(tasks[t], "threw", "", "OCPPError")]
  /\ UNCHANGED <<chargingStation, sent, handled, managerVars>>

----------------------------------------------------------------------------
(* SpecRemoteStart: RemoteStartTransaction requests arrive while others run *)

\* the stations: available or not, authorizing remote transactions or not,
\* with the id tag in the local list or not, authorizing at remote start or not
RemoteStartStations ==
  {[available |-> available, authorizeRemoteTxRequests |-> authorizeRemoteTxRequests,
    localAuthorized |-> localAuthorized, mustAuthorizeAtRemoteStart |-> mustAuthorize,
    connectors |-> [c \in ConnectorIds |-> [status |-> "Available"]]] :
     available \in BOOLEAN, authorizeRemoteTxRequests \in BOOLEAN,
     localAuthorized \in BOOLEAN, mustAuthorize \in BOOLEAN}

\* the connectors requested: connector 1, and connector 2, which no station has
RemoteStartConnectorIds == {1, 2}

RemoteStartChargingProfiles == {None, Some("TxProfile"), Some("TxDefaultProfile")}

AuthorizationStatuses == {"Accepted", "Invalid"}

InitRemoteStart ==
  /\ chargingStation \in RemoteStartStations
  /\ tasks = <<>>
  /\ sent = <<>>
  /\ handled = <<>>
  /\ ManagerIdle

NextRemoteStart ==
  \/ \E connectorId \in RemoteStartConnectorIds, cp \in RemoteStartChargingProfiles :
       HandleRequestRemoteStartTransaction(connectorId, cp)
  \/ \E t \in DOMAIN tasks : RemoteStartPrepared(t)
  \/ \E t \in DOMAIN tasks, status \in AuthorizationStatuses : RemoteStartAuthorized(t, status)
  \/ \E t \in DOMAIN tasks, status \in AuthorizationStatuses : RemoteStartStarted(t, status)
  \/ \E t \in DOMAIN tasks : RemoteStartRejected(t)
  \/ \E t \in DOMAIN tasks : RemoteStartRequestFailed(t)

SpecRemoteStart == InitRemoteStart /\ [][NextRemoteStart]_vars

----------------------------------------------------------------------------
(* C40 *)

\* the call has ended at this step
Ended(t) == tasks'[t].pc \in {"done", "threw"} /\ (t \in DOMAIN tasks => tasks[t].pc # tasks'[t].pc)

\* the call returned Accepted for an accepted StartTransaction and Rejected
\* else, and did not throw
ReturnedAsAnswered(task) ==
  /\ task.pc # "threw"
  /\ task.response = IF task.startTransaction = "Accepted" THEN "Accepted" ELSE "Rejected"

\* the connector of the call is Available in the station given
AvailableIn(station, task) ==
  /\ task.connectorId \in DOMAIN station.connectors
  /\ station.connectors[task.connectorId].status = "Available"

\* the call was served by the central system: none of its requests was rejected
Served(task) == task.error # "OCPPError"

\* C40: RemoteStartTransaction returns Accepted only if the StartTransaction
\* request it sent was answered Accepted; for every other outcome, a connector
\* id the station does not have among them, it returns Rejected without
\* throwing, and the connector's status is Available when Rejected is returned.
C40_AcceptedOrRejected ==
  [][\A t \in DOMAIN tasks' :
       Ended(t) =>
         /\ ReturnedAsAnswered(tasks'[t])
         /\ tasks'[t].response = "Rejected" => AvailableIn(chargingStation', tasks'[t])]_vars

\* C40 for a connector the station has and requests the central system serves
C40_ExistingConnector ==
  [][\A t \in DOMAIN tasks' :
       Ended(t) /\ tasks'[t].connectorId \in DOMAIN chargingStation.connectors
                /\ Served(tasks'[t]) =>
         /\ ReturnedAsAnswered(tasks'[t])
         /\ tasks'[t].response = "Rejected" => AvailableIn(chargingStation', tasks'[t])]_vars

\* a request for connector 2, which the station does not have, threw a TypeError
C40_NoSuchConnector ==
  \E t \in DOMAIN tasks :
    /\ tasks[t].connectorId \notin DOMAIN chargingStation.connectors
    /\ tasks[t].pc = "threw"
    /\ tasks[t].error = "TypeError"

====
